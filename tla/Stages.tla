------------------------------- MODULE Stages -------------------------------
(***************************************************************************)
(* The stages of the command-line program (app/main.c): its three modes    *)
(* run the lexer, the preprocessor, the converter and the parser over one  *)
(* file, write what comes out, report, release what they hold and return   *)
(* an exit code.  Each stage succeeds or fails.  What the libraries read   *)
(* and make is not here: all that a stage shows is how many errors have    *)
(* been reported.  Driver runs these stages over a lexer and a converter.  *)
(***************************************************************************)
EXTENDS Naturals, FiniteSets

CONSTANTS
  MaxFaults,     \* failures of the environment in one run
  Declarations   \* external declarations the parser finds in a text, at most

VARIABLES
  driver,        \* the run: its stage, what it holds, what became of it
  errors         \* severity_counts[QCC_DIAG_ERROR] of the sink

stageVars == <<driver, errors>>

Modes == {"E", "tokens", "ast"}

(* Other users of the libraries read tokens and go no further.             *)
OtherUsers == {"lexer", "converter", "printer"}

Outset(mode, to_file) ==
  [mode |-> mode, to_file |-> to_file,
   pc |-> IF mode \in Modes THEN "load" ELSE "preprocess", live |-> {},
   exit |-> 0, said |-> FALSE, faults |-> {}, written |-> 0, whole |-> FALSE]

StagesInit ==
  /\ \E mode \in Modes \cup OtherUsers, to_file \in BOOLEAN :
       driver = Outset(mode, to_file)
  /\ errors = 0

At0(pc) == driver.pc = pc

MayFail == driver.mode \in Modes /\ Cardinality(driver.faults) < MaxFaults

Step(pc) == driver' = [driver EXCEPT !.pc = pc]

Acquire(resources, pc) ==
  driver' = [driver EXCEPT !.pc = pc, !.live = @ \cup resources]

(* The step fails, a message is printed, and the exit code is set.         *)
Fail(what, pc) ==
  /\ MayFail
  /\ driver' = [driver EXCEPT !.pc = pc, !.exit = 1, !.said = TRUE,
                              !.faults = @ \cup {what}]

(* A library runs, and reports what it finds.                              *)
Reporting == errors' \in Nat /\ errors' >= errors

-----------------------------------------------------------------------------
Load ==
  /\ At0("load")
  /\ \/ Acquire({"source"}, "pp_init")
     \/ Fail("load", "gone")
  /\ UNCHANGED errors

PpInit ==
  /\ At0("pp_init")
  /\ \/ Acquire({"diags", "pp"}, "configure")
     \/ /\ MayFail
        /\ driver' = [driver EXCEPT !.pc = "gone", !.exit = 1, !.said = TRUE,
                                    !.live = {}, !.faults = @ \cup {"pp_init"}]
  /\ UNCHANGED errors

Configure ==
  /\ At0("configure")
  /\ Step("preprocess") \/ Fail("configure", "report")
  /\ UNCHANGED errors

Preprocess ==
  /\ At0("preprocess")
  /\ Reporting
  /\ UNCHANGED driver

PreprocessDone ==
  /\ At0("preprocess")
  /\ \/ /\ driver.mode \notin {"lexer", "printer"}
        /\ Acquire({"pt"},
                   IF driver.mode = "E" THEN "render" ELSE "convert_init")
     \/ Fail("preprocess", "report")
  /\ UNCHANGED errors

Render ==
  /\ At0("render")
  /\ Step("open") \/ Fail("render", "release")
  /\ UNCHANGED errors

ConvertInit(refused) ==
  /\ At0("convert_init")
  /\ IF refused
       THEN Fail("convert_init", "release")
       ELSE Acquire({"cv", "toks"}, "convert")
  /\ UNCHANGED errors

Convert(refused) ==
  /\ At0("convert")
  /\ Reporting
  /\ IF refused THEN Fail("convert", "release") ELSE UNCHANGED driver

(* The report of a stray token may be refused: the run goes on without it. *)
ConvertPastStray(refused) ==
  /\ At0("convert")
  /\ Reporting
  /\ refused => MayFail
  /\ driver' = [driver EXCEPT !.faults = @ \cup {f \in {"report"} : refused}]

ConvertDone ==
  /\ At0("convert")
  /\ driver.mode \in Modes
  /\ Step("open")
  /\ UNCHANGED errors

-----------------------------------------------------------------------------
Open ==
  /\ At0("open")
  /\ \/ Step("write")
     \/ driver.to_file /\ Fail("open", "release")
  /\ UNCHANGED errors

(* A write that fails at once is noticed by fwrite or ferror.              *)
Write ==
  /\ At0("write")
  /\ driver.mode # "ast"
  /\ \/ driver' = [driver EXCEPT !.pc = "close", !.whole = TRUE]
     \/ Fail("write", "close")
  /\ UNCHANGED errors

(* The loop of parse_and_dump_ast.  A refused declaration has been         *)
(* reported by the parser.                                                 *)
WriteDeclaration ==
  /\ At0("write")
  /\ driver.mode = "ast" /\ driver.written < Declarations
  /\ \/ driver' = [driver EXCEPT !.written = @ + 1] /\ UNCHANGED errors
     \/ driver' = [driver EXCEPT !.pc = "close", !.exit = 1] /\ errors' = errors + 1
     \/ Fail("parse", "close") /\ UNCHANGED errors

WriteDone ==
  /\ At0("write")
  /\ driver.mode = "ast"
  /\ \/ driver' = [driver EXCEPT !.pc = "close", !.whole = TRUE]
     \/ Fail("write", "close")
  /\ UNCHANGED errors

(* What is still in the buffer is lost: fclose tells, without a message;   *)
(* what fflush tells for standard output is not looked at.                 *)
Close ==
  /\ At0("close")
  /\ \/ Step("release")
     \/ /\ MayFail
        /\ driver' = [driver EXCEPT !.pc = "release", !.whole = FALSE,
                        !.exit = IF driver.to_file THEN 1 ELSE @,
                        !.faults = @ \cup
                          {IF driver.to_file THEN "close" ELSE "flush"}]
  /\ UNCHANGED errors

(* Faulty: the preprocessor is disposed of before the report, which reads  *)
(* the sources of included files that it owns.                             *)
ReleaseEarly ==
  /\ At0("release")
  /\ driver' = [driver EXCEPT !.pc = "report",
                              !.live = @ \ {"toks", "cv", "pt", "pp"}]
  /\ UNCHANGED errors

Release ==
  /\ At0("release")
  /\ driver' = [driver EXCEPT !.pc = "report",
                              !.live = @ \ {"toks", "cv", "pt"}]
  /\ UNCHANGED errors

(* Faulty: the error count is not asked for.                               *)
ExitAsItStands == driver.exit

ExitCode == IF driver.exit = 0 /\ errors > 0 THEN 1 ELSE driver.exit

Report0 ==
  /\ At0("report")
  /\ driver' = [driver EXCEPT !.pc = "dispose", !.exit = ExitCode]
  /\ UNCHANGED errors

Dispose ==
  /\ At0("dispose")
  /\ driver' = [driver EXCEPT !.pc = "gone",
                              !.live = @ \ {"pp", "diags", "source"}]
  /\ UNCHANGED errors

StagesNext ==
  \/ Load \/ PpInit \/ Configure \/ Preprocess \/ PreprocessDone \/ Render
  \/ \E refused \in BOOLEAN :
       ConvertInit(refused) \/ Convert(refused) \/ ConvertPastStray(refused)
  \/ ConvertDone \/ Open \/ Write \/ WriteDeclaration \/ WriteDone \/ Close
  \/ Release \/ Report0 \/ Dispose

StagesSpec == StagesInit /\ [][StagesNext]_stageVars

-----------------------------------------------------------------------------
(* What is left in memory that a stage reads: the tokens of phase 4 are    *)
(* spelled in the preprocessor's arena, those of phase 7 in the            *)
(* converter's, and every token and diagnostic points at its source        *)
(* (pp.h:24-27, convert.h:24-29, diag.h:17-19).                            *)
Needs(pc) ==
  CASE pc \in {"load", "pp_init", "gone"} -> {}
    [] pc \in {"configure", "preprocess", "report"} -> {"source", "diags", "pp"}
    [] pc \in {"render", "convert_init"} -> {"source", "diags", "pp", "pt"}
    [] pc = "convert" -> {"source", "diags", "pp", "pt", "cv", "toks"}
    [] pc \in {"open", "write", "close"} /\ driver.mode = "E" -> {"pp", "pt"}
    [] pc \in {"open", "write", "close"} /\ driver.mode # "E" ->
         {"source", "diags", "cv", "toks"}
    [] OTHER -> {}

(* No stage of the program reads what has been given back, and when the    *)
(* program ends, along whatever path of failures, nothing is still held    *)
(* (main.c:151-210, 331-408, 495-572).                                     *)
HeldWhileNeeded ==
  driver.mode \in Modes =>
    /\ Needs(driver.pc) \subseteq driver.live
    /\ driver.pc = "gone" => driver.live = {}

(* The exit code is 0 exactly when the input has no error, no step failed  *)
(* and the whole output was handed over, and it is never 1 in silence but  *)
(* for a failing fclose (main.c:20-23). Two failures leave no trace in the *)
(* exit code: that of fflush, and the refused report of a stray token.     *)
Untraced == {"flush", "report"}

ExitTellsTruth ==
  driver.pc = "gone" =>
    /\ driver.exit = 0 <=> errors = 0 /\ driver.faults \subseteq Untraced
    /\ driver.exit = 0 => driver.whole \/ "flush" \in driver.faults
    /\ driver.exit = 1 =>
         driver.said \/ errors > 0 \/ driver.faults \ Untraced = {"close"}
=============================================================================
