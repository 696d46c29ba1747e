------------------------------- MODULE Driver -------------------------------
(***************************************************************************)
(* The command-line program (app/main.c): the stages of Stages, where the  *)
(* lexer and the converter are those of Lexer and Conversion, over texts   *)
(* in which phase 4 has nothing to do but to drop the newlines; what the   *)
(* preprocessor and the parser may answer is left open.                    *)
(*                                                                         *)
(* A scenario gives the text, as the concatenation of an opening, some     *)
(* pieces and a closing, the mode and whether output goes to a file.       *)
(* Of the other users of the libraries, "lexer" reads on after the end of  *)
(* the text, "converter" runs the lexer and the converter and no more, and *)
(* "printer" only reads the tokens that Rendering prints.                  *)
(***************************************************************************)
EXTENDS Lexer, Conversion, Stages

Seqs == INSTANCE SequencesExt

CONSTANT Scenarios   \* the families of scenarios, a sequence of sets

Source(s) == s.opening \o Seqs!FlattenSeq(s.pieces) \o s.closing

ASSUME DriverAssumption ==
  \A family \in DOMAIN Scenarios : \A s \in Scenarios[family] :
    /\ Source(s) \in Seq(STRING \ {End})
    /\ s.mode \in Modes \cup OtherUsers /\ s.to_file \in BOOLEAN

vars == <<text, lexer, tokens, problems, input, conversion, driver, errors>>

Init ==
  \E family \in DOMAIN Scenarios : \E s \in Scenarios[family] :
    /\ LexInit(Source(s))
    /\ ConversionInit
    /\ driver = Outset(s.mode, s.to_file)
    /\ errors = 0

LibrariesUnchanged == UNCHANGED <<lexVars, conversionVars>>

(* The errors among what the lexer and the converter have reported.        *)
Warnings == {"trigraph", "too large", "so large it is unsigned",
             "unknown escape", "multi-character", "too long"}

Reported ==
  Cardinality({i \in DOMAIN problems : problems[i].what \notin Warnings})
    + Cardinality({i \in DOMAIN conversion.reported :
                     conversion.reported[i].what \notin Warnings})

-----------------------------------------------------------------------------
(* The lexer's calls, made by qcc_pp_run or by another user of it.         *)
Read ==
  /\ At0("preprocess")
  /\ EndsSoFar # {} => driver.mode = "lexer" /\ OverReading
  /\ ReadToken
  /\ UNCHANGED conversionVars
  /\ errors' = Reported'
  /\ Preprocess

Directives ==
  {i \in DOMAIN tokens : tokens[i].punct = "#" /\ tokens[i].at_line_start}

PreprocessEnd ==
  /\ At0("preprocess")
  /\ Finished /\ Directives = {}
  /\ PreprocessDone
  /\ LibrariesUnchanged

(* What phase 4 leaves of a text without directives and macros: all tokens *)
(* but the newlines.                                                       *)
Kept == {i \in DOMAIN Stream : Stream[i].kind # "newline"}

NthKept(n) == Stream[CHOOSE i \in Kept : Cardinality({j \in Kept : j <= i}) = n]

PpToken(t) ==
  [kind |-> t.kind, punct |-> t.punct, word |-> Spelling(text, t.offset, t.end)]

PpTokens == [n \in 1 .. Cardinality(Kept) |-> PpToken(NthKept(n))]

ConvertBegin ==
  /\ At0("convert_init")
  /\ \E refused \in BOOLEAN :
       /\ ConvertInit(refused)
       /\ IF refused THEN UNCHANGED conversionVars ELSE ConvertStart(PpTokens)
  /\ UNCHANGED lexVars

ConvertNext ==
  /\ At0("convert")
  /\ UNCHANGED lexVars
  /\ \E refused \in BOOLEAN :
       /\ ConvertToken(refused) \/ ConvertEnd(refused)
       /\ errors' = Reported'
       /\ Convert(refused)

ConvertNextStray ==
  /\ At0("convert")
  /\ UNCHANGED lexVars
  /\ \E refused \in BOOLEAN :
       /\ ConvertStray(refused)
       /\ errors' = Reported'
       /\ ConvertPastStray(refused)

ConvertFinish ==
  /\ conversion.status = "ok"
  /\ ConvertDone
  /\ LibrariesUnchanged

(* The other stages leave what the libraries hold as it is.                *)
Alone(Stage) == Stage /\ LibrariesUnchanged

Next ==
  \/ Alone(Load) \/ Alone(PpInit) \/ Alone(Configure)
  \/ Read \/ PreprocessEnd \/ Alone(Render)
  \/ ConvertBegin \/ ConvertNext \/ ConvertNextStray \/ ConvertFinish
  \/ Alone(Open) \/ Alone(Write) \/ Alone(WriteDeclaration) \/ Alone(WriteDone)
  \/ Alone(Close) \/ Alone(Release) \/ Alone(Report0) \/ Alone(Dispose)

Spec == Init /\ [][Next]_vars /\ WF_vars(Next)
=============================================================================
