----------------------------- MODULE Conversion -----------------------------
(***************************************************************************)
(* From preprocessing tokens to tokens (convert/convert.c, phases 5 to 7): *)
(* every turn of the loop of qcc_convert_run is a step.  A request for     *)
(* memory may be refused in any of them; a report that is refused that way *)
(* ends the run as well, except the report of a stray token, whose status  *)
(* is not looked at (convert.c:244-256).                                   *)
(***************************************************************************)
EXTENDS Literals

CONSTANT KeywordTable      \* the spellings of token.c:115-160, in its order

VARIABLES
  input,         \* the preprocessing tokens: their kind, punctuator and spelling
  conversion     \* status, the index of the next token, what it has put out and
                 \* reported, and the stray tokens it could not report

conversionVars == <<input, conversion>>

ConversionInit ==
  /\ input = <<>>
  /\ conversion = [status |-> "idle", at |-> 1, out |-> <<>>, reported |-> <<>>,
                   unreported |-> {}]

-----------------------------------------------------------------------------
(* Keywords: a binary search in the byte order of the spellings.           *)
Smaller(m, n) == IF m < n THEN m ELSE n

SpanCompare(w, entry) ==
  LET differing == {i \in 1 .. Smaller(Len(w), Len(entry)) : w[i] # entry[i]}
      first     == CHOOSE i \in differing : \A j \in differing : i <= j
  IN  IF differing = {} THEN Len(w) - Len(entry)
      ELSE Code[w[first]] - Code[entry[first]]

(* The order of the table, on which the search depends (token.c:113-114).  *)
ASSUME KeywordAssumption ==
  /\ KeywordTable \in Seq(Seq(DOMAIN Code))
  /\ \A i, j \in DOMAIN KeywordTable :
       i < j => SpanCompare(KeywordTable[i], KeywordTable[j]) < 0

Middle(r) == r[1] + (r[2] - r[1]) \div 2

KeywordTurn(w) ==
  [r \in (0 .. Len(KeywordTable)) \X (0 .. Len(KeywordTable)) |->
     LET diff == SpanCompare(w, KeywordTable[Middle(r) + 1])
     IN  IF r[1] >= r[2] THEN r
         ELSE IF diff = 0 THEN r
         ELSE IF diff < 0 THEN <<r[1], Middle(r)>> ELSE <<Middle(r) + 1, r[2]>>]

KeywordAt(r) == IF r[1] >= r[2] THEN <<>> ELSE KeywordTable[Middle(r) + 1]

KeywordLookup(w) == KeywordAt(LoopEnd(KeywordTurn(w), <<0, Len(KeywordTable)>>))

(* By its shape alone a number is an integer or a floating constant.       *)
ClassifyPpNumber(w) ==
  IF \E i \in DOMAIN w :
       w[i] = "." \/ w[i] \in IF IsHex(w) THEN {"p", "P"} ELSE {"e", "E"}
  THEN "floating" ELSE "integer"

-----------------------------------------------------------------------------
(* What one token becomes, and what is reported on the way.                *)
Token(kind, value, type) ==
  [kind |-> kind, at |-> conversion.at, value |-> value, type |-> type]

Made(token, reported, next) == [token |-> token, reported |-> reported, next |-> next]

FromValue(kind, evaluated) ==
  Made(Token(kind, evaluated.value, evaluated.type), evaluated.reported,
       conversion.at + 1)

RunEnd ==
  CHOOSE j \in conversion.at .. Len(input) :
    /\ input[j].kind = "string"
    /\ j = Len(input) \/ input[j + 1].kind # "string"
    /\ \A i \in conversion.at .. j : input[i].kind = "string"

FromRun(end) ==
  LET evaluated == EvalString([i \in 1 .. end - conversion.at + 1 |->
                                 input[conversion.at + i - 1].word])
  IN  [FromValue("string", evaluated) EXCEPT !.next = end + 1]

FromName(w, keyword) ==
  IF keyword = <<>> THEN FromValue("identifier", Evaluated(w, "", <<>>))
  ELSE FromValue("keyword", Evaluated(keyword, "", <<>>))

FromNumber(w) ==
  IF ClassifyPpNumber(w) = "integer" THEN FromValue("integer", EvalInteger(w))
  ELSE FromValue("floating", EvalFloating(w))

FromToken(t) ==
  IF t.kind = "string" THEN FromRun(RunEnd)
  ELSE IF t.kind = "char" THEN FromValue("char", EvalChar(t.word))
  ELSE IF t.kind = "number" THEN FromNumber(t.word)
  ELSE IF t.kind = "punct" THEN FromValue("punct", Evaluated(t.punct, "", <<>>))
  ELSE FromName(t.word, KeywordLookup(t.word))

Stray(t) == t.kind \in {"header", "other"}

-----------------------------------------------------------------------------
Running == conversion.status = "running"

Next0 == input[conversion.at]

Reports(what) == [i \in DOMAIN what |-> [at |-> conversion.at, what |-> what[i]]]

ConvertStart(pp_tokens) ==
  /\ conversion.status = "idle"
  /\ input' = pp_tokens
  /\ conversion' = [conversion EXCEPT !.status = "running"]

ConvertMade(made) ==
  conversion' = [conversion EXCEPT !.at = made.next,
                                   !.out = Append(@, made.token),
                                   !.reported = @ \o Reports(made.reported)]

(* Memory runs out after n of the reports: interning the spelling,         *)
(* evaluating, reporting or appending fails.                               *)
StopAfter(n, reports) ==
  conversion' = [conversion EXCEPT !.status = "oom",
                                   !.reported = @ \o SubSeq(reports, 1, n)]

ConvertOrRefuse(made, refused) ==
  IF refused THEN \E n \in 0 .. Len(made.reported) : StopAfter(n, Reports(made.reported))
  ELSE ConvertMade(made)

ConvertToken(refused) ==
  /\ Running
  /\ ~Stray(Next0) /\ Next0.kind # "eof"
  /\ ConvertOrRefuse(FromToken(Next0), refused)
  /\ UNCHANGED input

(* A stray token is reported; if the report is refused, the run goes on    *)
(* without it.                                                             *)
ConvertStray(refused) ==
  /\ Running
  /\ Stray(Next0)
  /\ conversion' =
       IF refused THEN [conversion EXCEPT !.at = @ + 1, !.unreported = @ \cup {conversion.at}]
       ELSE [conversion EXCEPT !.at = @ + 1, !.reported = @ \o Reports(<<"stray">>)]
  /\ UNCHANGED input

ConvertEnd(refused) ==
  /\ Running
  /\ Next0.kind = "eof"
  /\ conversion' =
       IF refused THEN [conversion EXCEPT !.status = "oom"]
       ELSE [conversion EXCEPT !.status = "ok", !.out = Append(@, Token("eof", <<>>, ""))]
  /\ UNCHANGED input
=============================================================================
