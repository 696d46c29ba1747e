---------------------------- MODULE ExpansionProofs ----------------------------
(***************************************************************************)
(* Proofs about phase 4, for any names, headers, programs, pastes and      *)
(* bounds, and any number of nested activations: every state is of its     *)
(* type, a replacement being scanned is hidden from each of its tokens and *)
(* from those of the replacements above it, which is why rescanning ends,  *)
(* and no definition changes under a call that may use it.                 *)
(*                                                                         *)
(* The strings # makes quote other tokens, strings among them, so no fixed *)
(* set holds every token.  The type of a state is therefore relative to a  *)
(* set of texts, which # enlarges; the invariant says that there is one.   *)
(*                                                                         *)
(* The reads come first, then one lemma for each group of actions, in the  *)
(* order of Expansion.                                                     *)
(***************************************************************************)
EXTENDS Expansion, FiniteSetTheorems, WellFoundedInduction, TLAPS

-----------------------------------------------------------------------------
(* The types, for a set of texts.                                          *)
Numerals  == {Numeral(n) : n \in Int}
Spellings == Strings \cup Numerals \cup {"nl", "eof", "string", "placemarker"}

Phases == {"scan", "lookahead", "collect", "substitute", "computed",
           "directive", "define", "form", "parameters", "parameter", "comma",
           "ellipsis", "replacement", "undef", "include", "open", "rest", "skip"}

Expanding == {"scan", "lookahead", "collect", "substitute"}

TokenSet(texts) ==
  [sym : Spellings, text : texts, space : BOOLEAN, bol : BOOLEAN, line : Int,
   hs : SUBSET Names]

FrameSet(texts) ==
  [of : Names \cup {"file", "argument"}, toks : Seq(TokenSet(texts)),
   delta : Int]

CallSet(texts) ==
  [name : TokenSet(texts), args : Seq(Seq(TokenSet(texts))),
   cur : Seq(TokenSet(texts)), depth : Int, gap : BOOLEAN,
   rparen : TokenSet(texts), next : Nat \ {0}, os : Seq(TokenSet(texts)),
   def : Definable(TokenSet(texts))]

PendingSet(texts) == [tok : TokenSet(texts), fe : BOOLEAN]

ActSet(texts) ==
  [frames : Seq(FrameSet(texts)), pending : Seq(PendingSet(texts)),
   out : Seq(TokenSet(texts)), phase : Phases, call : CallSet(texts)]

Types(texts) ==
  /\ <<>> \in texts
  /\ macros \in [Names -> Definable(TokenSet(texts))]
  /\ acts \in Seq(ActSet(texts)) /\ Len(acts) > 0
  /\ status \in {"running", "ok", "oom"}

-----------------------------------------------------------------------------
(* The parts of the invariant.                                             *)

(* Replacements lie above whatever else is read, and no two of them are of *)
(* one macro: stream.c pushes them, and a file or an argument is pushed    *)
(* only where no replacement is being scanned.                             *)
Layered(a) ==
  \A f, g \in DOMAIN a.frames :
    f < g /\ Replaces(a, f) => Replaces(a, g) /\ a.frames[f].of # a.frames[g].of

(* A token hides every replacement it was read in or would be rescanned    *)
(* above (hideset.c).                                                      *)
Hidden(a) ==
  \A f \in DOMAIN a.frames : \A i \in DOMAIN a.frames[f].toks :
    HidesBelow(a, a.frames[f].toks[i], f)

(* Token t hides every replacement being scanned; none is.                 *)
HidesAll(a, t) ==
  \A g \in DOMAIN a.frames : Replaces(a, g) => a.frames[g].of \in t.hs

Bare(a) == \A g \in DOMAIN a.frames : ~Replaces(a, g)

(* The token that qcc_pp_stream_unget keeps, which outlives the frame it   *)
(* came from, still hides all that is left, and comes from a file only     *)
(* where nothing is being replaced.                                        *)
PushedBack(a) ==
  a.pending # <<>> =>
    /\ a.phase = "scan"
    /\ HidesAll(a, a.pending[1].tok)
    /\ ~a.pending[1].fe => Bare(a)

(* While a call is collected and substituted, its name and, once read, its *)
(* closing parenthesis hide what is being scanned below them, and each     *)
(* parameter has its argument: what expand_function relies on when it      *)
(* forms the hide set and indexes the arguments.                           *)
Called(ms, a) ==
  a.phase \in {"lookahead", "collect", "substitute"} =>
    /\ HidesAll(a, a.call.name)
    /\ a.call.name.sym \in Names \ a.call.name.hs
    /\ a.phase = "substitute" =>
         /\ HidesAll(a, a.call.rparen)
         /\ LET m == ms[a.call.name.sym] IN
              /\ DOMAIN m.params \subseteq DOMAIN a.call.args
              /\ m.variadic => Len(m.params) + 1 \in DOMAIN a.call.args

(* A directive is read from a file, never from a replacement.              *)
InDirective(a) == a.phase \notin Expanding => Bare(a)

(* What an activation that is not the last one is doing: expand_token_list *)
(* was called for an argument or for a computed directive.                 *)
Waits(ms, a) ==
  \/ a.phase = "computed"
  \/ a.phase = "substitute" /\ a.call.next \in DOMAIN ms[a.call.name.sym].body

Sound(ms, a) ==
  Layered(a) /\ Hidden(a) /\ PushedBack(a) /\ Called(ms, a) /\ InDirective(a)

(* Every activation is sound, only the driver reads directives, and each   *)
(* but the last waits for the next.                                        *)
Nested ==
  /\ \A k \in 1 .. Len(acts) : Sound(macros, acts[k])
  /\ \A k \in 2 .. Len(acts) : acts[k].phase \in Expanding
  /\ \A k \in 1 .. Len(acts) - 1 : Waits(macros, acts[k])

(* The inductive invariant.                                                *)
IInv == (\E texts : Types(texts)) /\ Nested

-----------------------------------------------------------------------------
(* A set of naturals that is not empty has a least element.                *)
LessOnNat == {ss \in Nat \X Nat : ss[1] < ss[2]}

LEMMA LessWellFounded == IsWellFoundedOn(LessOnNat, Nat)
  BY NatLessThanWellFounded DEF OpToRel, LessOnNat

LEMMA LeastNatural ==
  ASSUME NEW T \in SUBSET Nat, T # {}
  PROVE  \E x \in T : \A y \in T : x <= y
<1>1. PICK x \in T : \A y \in T : ~(<<y, x>> \in LessOnNat)
  BY LessWellFounded, WFMin
<1>2. ASSUME NEW y \in T PROVE x <= y
  <2>1. x \in Nat /\ y \in Nat
    OBVIOUS
  <2>2. y < x => <<y, x>> \in LessOnNat
    BY <2>1 DEF LessOnNat
  <2> QED
    BY <1>1, <2>1, <2>2
<1> QED
  BY <1>2

-----------------------------------------------------------------------------
(* Sequences: what an operator returns is a sequence over the same set.    *)
LEMMA AppendType ==
  ASSUME NEW S, NEW s \in Seq(S), NEW e \in S
  PROVE  Append(s, e) \in Seq(S)
OBVIOUS

LEMMA NoneType == ASSUME NEW S PROVE <<>> \in Seq(S)
OBVIOUS

LEMMA HeadType ==
  ASSUME NEW S, NEW s \in Seq(S), s # <<>>
  PROVE  s[1] \in S /\ Tail(s) \in Seq(S)
OBVIOUS

WithLast(s, e) == [s EXCEPT ![Len(s)] = e]

LEMMA UpdateLast ==
  ASSUME NEW S, NEW s \in Seq(S), Len(s) > 0, NEW e \in S
  PROVE  /\ WithLast(s, e) \in Seq(S) /\ Len(WithLast(s, e)) = Len(s)
         /\ WithLast(s, e)[Len(s)] = e
BY DEF WithLast

LEMMA SeqOf ==
  ASSUME NEW S, NEW n \in Nat, NEW f, f = [i \in 1 .. n |-> f[i]],
         \A i \in 1 .. n : f[i] \in S
  PROVE  f \in Seq(S)
OBVIOUS

LEMMA ConcatType ==
  ASSUME NEW S, NEW s \in Seq(S), NEW t \in Seq(S)
  PROVE  s \o t \in Seq(S)
OBVIOUS

LEMMA FrontType ==
  ASSUME NEW S, NEW s \in Seq(S)
  PROVE  SubSeq(s, 1, Len(s) - 1) \in Seq(S)
OBVIOUS

-----------------------------------------------------------------------------
(* The running activation and its source.                                  *)
LEMMA EofType == ASSUME NEW texts, <<>> \in texts PROVE Eof \in TokenSet(texts)
<1>1. "eof" \in Spellings
  BY DEF Spellings
<1>2. 0 \in Int /\ {} \in SUBSET Names
  OBVIOUS
<1> QED BY <1>1, <1>2 DEF Eof, TokenSet

LEMMA BecomeStep ==
  ASSUME NEW A, acts \in Seq(A), Len(acts) > 0, NEW b \in A, Become(b)
  PROVE  /\ acts' \in Seq(A)
         /\ Len(acts') = Len(acts)
         /\ acts'[Len(acts)] = b
         /\ \A k \in 1 .. Len(acts) - 1 : acts'[k] = acts[k]
BY DEF Become

LEMMA SelfType ==
  ASSUME NEW texts, Types(texts)
  PROVE  /\ Len(acts) \in Nat \ {0} /\ DOMAIN acts = 1 .. Len(acts)
         /\ Self \in ActSet(texts) /\ Self = acts[Len(acts)]
BY DEF Types, Self

(* A set of positions that is not empty has a last one.                    *)
LEMMA LastOfLive ==
  ASSUME NEW n \in Nat, NEW T \in SUBSET (1 .. n), T # {}
  PROVE  \E k \in T : \A j \in T : j <= k
<1> DEFINE gaps == {n - k : k \in T}
<1>1. gaps \subseteq Nat /\ gaps # {}
  <2>1. \A k \in T : k \in 1 .. n /\ n - k \in Nat /\ n - k \in gaps
    OBVIOUS
  <2> QED BY <2>1
<1>2. PICK g \in gaps : \A h \in gaps : g <= h
  BY <1>1, LeastNatural
<1>3. PICK k \in T : g = n - k
  OBVIOUS
<1>4. ASSUME NEW j \in T
      PROVE  j <= k
  <2>1. n - j \in gaps
    OBVIOUS
  <2> QED BY <1>2, <1>3, <2>1
<1> QED BY <1>3, <1>4

LEMMA SourceIsLast ==
  ASSUME NEW S, NEW a, a.frames \in Seq(S), Live(a) # {}
  PROVE  /\ Source(a) \in Live(a)
         /\ \A j \in Live(a) : j <= Source(a)
<1>1. Live(a) \subseteq 1 .. Len(a.frames) /\ Len(a.frames) \in Nat
  BY DEF Live
<1>2. \E k \in Live(a) : \A j \in Live(a) : j <= k
  BY <1>1, LastOfLive
<1>3. Source(a) = CHOOSE k \in Live(a) : \A j \in Live(a) : j <= k
  BY DEF Source
<1> QED BY <1>2, <1>3

-----------------------------------------------------------------------------
(* What a read returns (qcc_pp_stream_next).                               *)
LEMMA TokenType ==
  ASSUME NEW texts, <<>> \in texts, NEW a \in ActSet(texts)
  PROVE  Token(a) \in TokenSet(texts) /\ FromExpansion(a) \in BOOLEAN
<1>1. CASE a.pending # <<>>
  <2>1. a.pending \in Seq(PendingSet(texts))
    BY DEF ActSet
  <2>2. a.pending[1] \in PendingSet(texts)
    BY <1>1, <2>1
  <2> QED BY <1>1, <2>2 DEF Token, FromExpansion, PendingSet
<1>2. CASE a.pending = <<>> /\ Live(a) = {}
  BY <1>2, EofType DEF Token, FromExpansion
<1>3. CASE a.pending = <<>> /\ Live(a) # {}
  <2>1. a.frames \in Seq(FrameSet(texts))
    BY DEF ActSet
  <2>2. Source(a) \in DOMAIN a.frames /\ a.frames[Source(a)].toks # <<>>
    BY <1>3, <2>1, SourceIsLast DEF Live
  <2>3. PICK f \in FrameSet(texts) : f = a.frames[Source(a)] /\ f.toks # <<>>
    BY <2>1, <2>2
  <2>4. f.toks[1] \in TokenSet(texts) /\ f.delta \in Int
    BY <2>3 DEF FrameSet
  <2>5. [f.toks[1] EXCEPT !.line = @ + f.delta] \in TokenSet(texts)
    BY <2>4 DEF TokenSet
  <2> QED BY <1>3, <2>3, <2>5 DEF Token, FromExpansion
<1> QED BY <1>1, <1>2, <1>3

(* The frames after a read: those up to the source, less the token.        *)
Lower(b, a) ==
  /\ Len(b.frames) <= Len(a.frames)
  /\ \A k \in 1 .. Len(b.frames) :
       /\ b.frames[k].of = a.frames[k].of
       /\ \A i \in DOMAIN b.frames[k].toks : \E j \in DOMAIN a.frames[k].toks :
            b.frames[k].toks[i] = a.frames[k].toks[j]

LEMMA AdvanceType ==
  ASSUME NEW texts, <<>> \in texts, NEW a \in ActSet(texts)
  PROVE  /\ Advance(a) \in ActSet(texts)
         /\ Advance(a).pending = <<>>
         /\ Advance(a).phase = a.phase
         /\ Advance(a).call = a.call
         /\ Advance(a).out = a.out
         /\ Lower(Advance(a), a)
         /\ a.pending = <<>> => Len(Advance(a).frames) = Source(a)
         /\ a.pending # <<>> => Advance(a).frames = a.frames
<1>1. CASE a.pending # <<>>
  <2> DEFINE none == <<>>
  <2>1. Advance(a) = [a EXCEPT !.pending = none]
    BY <1>1 DEF Advance
  <2>4. none \in Seq(PendingSet(texts)) /\ none = <<>>
    OBVIOUS
  <2> HIDE DEF none
  <2>2. /\ Advance(a) \in ActSet(texts)
        /\ Advance(a).pending = <<>>
        /\ Advance(a).phase = a.phase
        /\ Advance(a).call = a.call
        /\ Advance(a).out = a.out
        /\ Advance(a).frames = a.frames
    BY <2>1, <2>4 DEF ActSet
  <2>3. Len(a.frames) \in Nat
    BY DEF ActSet
  <2> QED BY <1>1, <2>2, <2>3 DEF Lower
<1>2. ASSUME a.pending = <<>>, NEW n \in Nat, n = Source(a), n <= Len(a.frames),
             n > 0 => a.frames[n].toks # <<>>
      PROVE  /\ Advance(a) \in ActSet(texts)
             /\ Advance(a).pending = <<>>
             /\ Advance(a).phase = a.phase
             /\ Advance(a).call = a.call
             /\ Advance(a).out = a.out
             /\ Lower(Advance(a), a)
             /\ Len(Advance(a).frames) = Source(a)
  <2> DEFINE fs == [k \in 1 .. n |->
                      IF k = n THEN [a.frames[k] EXCEPT !.toks = Tail(@)]
                      ELSE a.frames[k]]
  <2>1. a.frames \in Seq(FrameSet(texts)) /\ Len(a.frames) \in Nat
    BY DEF ActSet
  <2>2. Advance(a) = [a EXCEPT !.frames = fs]
    BY <1>2 DEF Advance
  <2>3. ASSUME NEW k \in 1 .. n
        PROVE  /\ fs[k] \in FrameSet(texts)
               /\ fs[k].of = a.frames[k].of
               /\ \A i \in DOMAIN fs[k].toks :
                    \E j \in DOMAIN a.frames[k].toks :
                    fs[k].toks[i] = a.frames[k].toks[j]
    <3>1. PICK f \in FrameSet(texts) : f = a.frames[k]
      BY <1>2, <2>1
    <3>2. CASE k # n
      BY <3>1, <3>2
    <3>3. CASE k = n
      <4>1. f.toks \in Seq(TokenSet(texts)) /\ f.toks # <<>>
        BY <1>2, <3>1, <3>3 DEF FrameSet
      <4>2. fs[k] = [f EXCEPT !.toks = Tail(f.toks)]
        BY <3>1, <3>3
      <4>3. /\ Tail(f.toks) \in Seq(TokenSet(texts))
            /\ \A i \in DOMAIN Tail(f.toks) :
                 i + 1 \in DOMAIN f.toks /\ Tail(f.toks)[i] = f.toks[i + 1]
        BY <4>1
      <4>4. fs[k] \in FrameSet(texts) /\ fs[k].of = f.of
              /\ fs[k].toks = Tail(f.toks)
        BY <3>1, <4>2, <4>3 DEF FrameSet
      <4> QED BY <3>1, <4>3, <4>4
    <3> QED BY <3>2, <3>3
  <2> HIDE DEF fs
  <2>4. fs \in Seq(FrameSet(texts)) /\ Len(fs) = n
    <3>1. fs = [k \in 1 .. n |-> fs[k]]
      BY DEF fs
    <3> QED BY <1>2, <2>3, <3>1
  <2>5. /\ Advance(a) \in ActSet(texts)
        /\ Advance(a).pending = <<>>
        /\ Advance(a).phase = a.phase
        /\ Advance(a).call = a.call
        /\ Advance(a).out = a.out
        /\ Advance(a).frames = fs
    BY <1>2, <2>2, <2>4 DEF ActSet
  <2> QED BY <1>2, <2>3, <2>4, <2>5 DEF Lower
<1>3. CASE a.pending = <<>> /\ Live(a) = {}
  <2>1. Source(a) = 0 /\ a.frames \in Seq(FrameSet(texts))
    BY <1>3 DEF Source, ActSet
  <2> QED BY <1>2, <1>3, <2>1
<1>4. CASE a.pending = <<>> /\ Live(a) # {}
  <2>1. a.frames \in Seq(FrameSet(texts))
    BY DEF ActSet
  <2>2. Source(a) \in DOMAIN a.frames /\ a.frames[Source(a)].toks # <<>>
    BY <1>4, <2>1, SourceIsLast DEF Live
  <2> QED BY <1>2, <1>4, <2>1, <2>2
<1> QED BY <1>1, <1>3, <1>4

(* A read only takes away, so it disturbs neither order nor hiding, ...    *)
LEMMA LowerKeeps ==
  ASSUME NEW texts, NEW a \in ActSet(texts), NEW b \in ActSet(texts), Lower(b,
         a)
  PROVE  /\ Layered(a) => Layered(b)
         /\ Hidden(a) => Hidden(b)
         /\ Bare(a) => Bare(b)
<1>1. /\ a.frames \in Seq(FrameSet(texts))
           /\ DOMAIN a.frames = 1 .. Len(a.frames)
      /\ b.frames \in Seq(FrameSet(texts))
           /\ DOMAIN b.frames = 1 .. Len(b.frames)
      /\ Len(a.frames) \in Nat /\ Len(b.frames) \in Nat
  BY DEF ActSet
<1>2. ASSUME NEW k \in DOMAIN b.frames
      PROVE  k \in DOMAIN a.frames /\ b.frames[k].of = a.frames[k].of
  BY <1>1 DEF Lower
<1>3. Layered(a) => Layered(b)
  BY <1>2 DEF Layered, Replaces
<1>4. Bare(a) => Bare(b)
  BY <1>2 DEF Bare, Replaces
<1>5. ASSUME Hidden(a)
      PROVE  Hidden(b)
  <2>1. ASSUME NEW k \in DOMAIN b.frames, NEW i \in DOMAIN b.frames[k].toks,
               NEW g \in 1 .. k, Replaces(b, g)
        PROVE  b.frames[g].of \in b.frames[k].toks[i].hs
    <3>1. PICK j \in DOMAIN a.frames[k].toks :
            b.frames[k].toks[i] = a.frames[k].toks[j]
      BY <1>1 DEF Lower
    <3>2. k \in DOMAIN a.frames /\ g \in DOMAIN b.frames
      BY <1>1, <1>2
    <3>3. Replaces(a, g) /\ b.frames[g].of = a.frames[g].of
      BY <1>2, <2>1, <3>2 DEF Replaces
    <3> QED BY <1>5, <3>1, <3>2, <3>3 DEF Hidden, HidesBelow
  <2> QED BY <2>1 DEF Hidden, HidesBelow
<1> QED BY <1>3, <1>4, <1>5

(* ... nor what a token hides.                                             *)
LEMMA LowerHides ==
  ASSUME NEW texts, NEW a \in ActSet(texts), NEW b \in ActSet(texts), Lower(b,
         a),
         NEW t, HidesAll(a, t)
  PROVE  HidesAll(b, t)
<1>1. /\ a.frames \in Seq(FrameSet(texts))
           /\ DOMAIN a.frames = 1 .. Len(a.frames)
      /\ b.frames \in Seq(FrameSet(texts))
           /\ DOMAIN b.frames = 1 .. Len(b.frames)
      /\ Len(a.frames) \in Nat /\ Len(b.frames) \in Nat
  BY DEF ActSet
<1>2. ASSUME NEW k \in DOMAIN b.frames
      PROVE  k \in DOMAIN a.frames /\ b.frames[k].of = a.frames[k].of
  BY <1>1 DEF Lower
<1> QED BY <1>2 DEF HidesAll, Replaces

(* The token read hides every replacement that is left to scan; one that   *)
(* is not from an expansion leaves none.                                   *)
LEMMA TokenHides ==
  ASSUME NEW texts, <<>> \in texts, NEW a \in ActSet(texts),
         Layered(a), Hidden(a), PushedBack(a)
  PROVE  /\ HidesAll(Advance(a), Token(a))
         /\ ~FromExpansion(a) => Bare(Advance(a))
<1>0. /\ a.frames \in Seq(FrameSet(texts))
           /\ DOMAIN a.frames = 1 .. Len(a.frames)
      /\ Len(a.frames) \in Nat /\ Advance(a) \in ActSet(texts)
           /\ Lower(Advance(a), a)
      /\ Advance(a).frames \in Seq(FrameSet(texts))
      /\ DOMAIN Advance(a).frames = 1 .. Len(Advance(a).frames)
  BY AdvanceType DEF ActSet
<1>1. CASE a.pending # <<>>
  <2>1. Advance(a).frames = a.frames
    BY <1>1, AdvanceType
  <2>2. Token(a) = a.pending[1].tok /\ FromExpansion(a) = a.pending[1].fe
    BY <1>1 DEF Token, FromExpansion
  <2> QED BY <1>1, <2>1, <2>2 DEF PushedBack, HidesAll, Bare, Replaces
<1>2. CASE a.pending = <<>> /\ Live(a) = {}
  <2>1. Len(Advance(a).frames) = 0
    BY <1>2, AdvanceType DEF Source
  <2>2. DOMAIN Advance(a).frames = {}
    BY <1>0, <2>1
  <2> QED BY <2>2 DEF HidesAll, Bare
<1>3. CASE a.pending = <<>> /\ Live(a) # {}
  <2> DEFINE n == Source(a)
  <2>1. Len(Advance(a).frames) = n
    BY <1>3, AdvanceType
  <2>2. n \in DOMAIN a.frames /\ a.frames[n].toks # <<>>
    BY <1>0, <1>3, SourceIsLast DEF Live
  <2>3. ASSUME NEW g \in DOMAIN Advance(a).frames
        PROVE  /\ g \in 1 .. n
               /\ g \in DOMAIN a.frames
               /\ Advance(a).frames[g].of = a.frames[g].of
    BY <1>0, <2>1 DEF Lower
  <2>4. PICK f \in FrameSet(texts) : f = a.frames[n] /\ f.toks # <<>>
    BY <1>0, <2>2
  <2>5. 1 \in DOMAIN f.toks /\ f.toks[1] \in TokenSet(texts) /\ f.delta \in Int
    BY <2>4 DEF FrameSet
  <2>6. Token(a) = [f.toks[1] EXCEPT !.line = @ + f.delta]
    BY <1>3, <2>4 DEF Token
  <2>7. Token(a).hs = a.frames[n].toks[1].hs
    BY <2>4, <2>5, <2>6 DEF TokenSet
  <2>8. HidesBelow(a, a.frames[n].toks[1], n)
    BY <2>2, <2>4, <2>5 DEF Hidden
  <2>9. HidesAll(Advance(a), Token(a))
    BY <2>3, <2>7, <2>8 DEF HidesBelow, HidesAll, Replaces
  <2>10. ASSUME ~FromExpansion(a)
         PROVE  Bare(Advance(a))
    <3>1. a.frames[n].of = "file"
      BY <1>3, <2>10 DEF FromExpansion
    <3>2. ~Replaces(a, n)
      BY <3>1, ExpansionAssumption DEF Replaces
    <3>3. \A g \in 1 .. n : ~Replaces(a, g)
      <4>1. ASSUME NEW g \in 1 .. n, g # n
            PROVE  ~Replaces(a, g)
        <5>1. g < n /\ g \in DOMAIN a.frames
          BY <1>0, <2>2, <4>1
        <5> QED BY <2>2, <3>2, <5>1 DEF Layered
      <4> QED BY <3>2, <4>1
    <3> QED BY <2>3, <3>3 DEF Bare, Replaces
  <2> QED BY <2>9, <2>10
<1> QED BY <1>1, <1>2, <1>3

(* A read that leaves its activation in a phase that is sound by itself.   *)
LEMMA ReadSound ==
  ASSUME NEW texts, <<>> \in texts, NEW a \in ActSet(texts),
         Layered(a), Hidden(a),
         NEW ms, NEW b \in ActSet(texts), b.frames = Advance(a).frames,
         b.pending = <<>>, Called(ms, b), InDirective(b)
  PROVE  Sound(ms, b)
<1>1. Advance(a) \in ActSet(texts) /\ Lower(Advance(a), a)
  BY AdvanceType
<1>2. Lower(b, a)
  BY <1>1 DEF Lower
<1>3. Layered(b) /\ Hidden(b)
  BY <1>2, LowerKeeps
<1> QED BY <1>3 DEF Sound, PushedBack

(* The values an activation starts with and returns to.                    *)
LEMMA NoMacroType ==
  ASSUME NEW tokens
  PROVE  NoMacro \in Definable(tokens)
<1> DEFINE none == <<>>
<1>1. none \in Seq(Names) /\ none \in Seq(tokens)
  OBVIOUS
<1>2. NoMacro = [kind |-> "none", params |-> none, variadic |-> FALSE,
                 body |-> none]
  BY DEF NoMacro
<1> HIDE DEF none
<1> QED BY <1>1, <1>2 DEF Definable

LEMMA NoCallType ==
  ASSUME NEW texts, <<>> \in texts
  PROVE  NoCall \in CallSet(texts)
<1> DEFINE none == <<>>
<1>1. none \in Seq(TokenSet(texts)) /\ none \in Seq(Seq(TokenSet(texts)))
  OBVIOUS
<1>2. NoCall = [name |-> Eof, args |-> none, cur |-> none, depth |-> 0,
                gap |-> FALSE,
                rparen |-> Eof, next |-> 1, os |-> none, def |-> NoMacro]
  BY DEF NoCall
<1> HIDE DEF none
<1> QED BY <1>1, <1>2, EofType, NoMacroType DEF CallSet

LEMMA EmitType ==
  ASSUME NEW texts, <<>> \in texts, NEW a \in ActSet(texts),
         NEW t \in TokenSet(texts)
  PROVE  /\ Emit(a, t) \in ActSet(texts)
         /\ Emit(a, t).frames = a.frames
         /\ Emit(a, t).pending = a.pending
         /\ Emit(a, t).phase = "scan"
<1>1. NoCall \in CallSet(texts)
  BY NoCallType
<1>2. a.out \in Seq(TokenSet(texts))
  BY DEF ActSet
<1>3. PICK o \in Seq(TokenSet(texts)) : o = Append(a.out, t)
  BY <1>2, AppendType
<1>4. PICK b : b = [a EXCEPT !.out = o]
  OBVIOUS
<1>5. b \in ActSet(texts) /\ b.frames = a.frames /\ b.pending = a.pending
  BY <1>3, <1>4 DEF ActSet
<1>6. Emit(a, t) = [[b EXCEPT !.phase = "scan"] EXCEPT !.call = NoCall]
  BY <1>3, <1>4 DEF Emit
<1> QED BY <1>1, <1>5, <1>6 DEF ActSet, Phases

-----------------------------------------------------------------------------
(* Soundness of the frames is a matter of the frames.                      *)
LEMMA SameFrames ==
  ASSUME NEW a, NEW b, a.frames = b.frames
  PROVE  /\ Layered(a) <=> Layered(b)
         /\ Hidden(a) <=> Hidden(b)
         /\ Bare(a) <=> Bare(b)
         /\ \A t : HidesAll(a, t) <=> HidesAll(b, t)
BY DEF Layered, Hidden, Bare, HidesAll, HidesBelow, Replaces

(* A step of the running activation, ...                                   *)
LEMMA BecomeKeeps ==
  ASSUME NEW texts, Types(texts), Nested, NEW b \in ActSet(texts), Become(b),
         Sound(macros, b), Len(acts) > 1 => b.phase \in Expanding,
         macros' = macros, status' \in {"running", "ok", "oom"}
  PROVE  Types(texts)' /\ Nested'
<1>1. acts \in Seq(ActSet(texts)) /\ Len(acts) > 0 /\ Len(acts) \in Nat
  BY DEF Types
<1>2. /\ acts' \in Seq(ActSet(texts))
      /\ Len(acts') = Len(acts)
      /\ acts'[Len(acts)] = b
      /\ \A k \in 1 .. Len(acts) - 1 : acts'[k] = acts[k]
  BY <1>1, BecomeStep
<1>3. Types(texts)'
  BY <1>1, <1>2 DEF Types
<1>4. ASSUME NEW k \in 1 .. Len(acts')
      PROVE  Sound(macros', acts'[k])
  <2>1. CASE k = Len(acts)
    BY <1>2, <2>1
  <2>2. CASE k # Len(acts)
    <3>1. k \in 1 .. Len(acts) - 1 /\ k \in 1 .. Len(acts)
      BY <1>1, <1>2, <2>2
    <3> QED BY <1>2, <3>1 DEF Nested
  <2> QED BY <2>1, <2>2
<1>5. ASSUME NEW k \in 2 .. Len(acts')
      PROVE  acts'[k].phase \in Expanding
  <2>1. CASE k = Len(acts)
    BY <1>1, <1>2, <2>1
  <2>2. CASE k # Len(acts)
    <3>1. k \in 1 .. Len(acts) - 1 /\ k \in 2 .. Len(acts)
      BY <1>1, <1>2, <2>2
    <3> QED BY <1>2, <3>1 DEF Nested
  <2> QED BY <2>1, <2>2
<1>6. ASSUME NEW k \in 1 .. Len(acts') - 1
      PROVE  Waits(macros', acts'[k])
  <2>1. k \in 1 .. Len(acts) - 1 /\ acts'[k] = acts[k]
    BY <1>2
  <2>2. Waits(macros, acts[k])
    BY <2>1 DEF Nested
  <2> QED BY <2>1, <2>2
<1> QED BY <1>3, <1>4, <1>5, <1>6 DEF Nested

(* ... what it may rely on, ...                                            *)
LEMMA Reading ==
  ASSUME NEW texts, Types(texts), Nested
  PROVE  /\ Self \in ActSet(texts) /\ Sound(macros, Self)
         /\ Token(Self) \in TokenSet(texts)
         /\ Advance(Self) \in ActSet(texts)
         /\ Advance(Self).pending = <<>>
         /\ Advance(Self).phase = Self.phase
         /\ Advance(Self).call = Self.call
         /\ Advance(Self).out = Self.out
         /\ HidesAll(Advance(Self), Token(Self))
         /\ ~FromExpansion(Self) => Bare(Advance(Self))
         /\ Bare(Self) => Bare(Advance(Self))
         /\ \A t : HidesAll(Self, t) => HidesAll(Advance(Self), t)
         /\ Self.phase \notin Expanding => Len(acts) = 1
<1>1. <<>> \in texts
  BY DEF Types
<1>2. Len(acts) \in Nat \ {0} /\ Self \in ActSet(texts)
        /\ Self = acts[Len(acts)]
  BY SelfType
<1>3. Sound(macros, Self)
  BY <1>2 DEF Nested
<1>4. Self.phase \notin Expanding => Len(acts) = 1
  <2>1. Len(acts) # 1 => Len(acts) \in 2 .. Len(acts)
    BY <1>2
  <2> QED BY <1>2, <2>1 DEF Nested
<1>5. /\ Advance(Self) \in ActSet(texts) /\ Lower(Advance(Self), Self)
      /\ Advance(Self).pending = <<>>
      /\ Advance(Self).phase = Self.phase
      /\ Advance(Self).call = Self.call
      /\ Advance(Self).out = Self.out
  BY <1>1, <1>2, AdvanceType
<1>6. Token(Self) \in TokenSet(texts)
  BY <1>1, <1>2, TokenType
<1>7. /\ HidesAll(Advance(Self), Token(Self))
      /\ ~FromExpansion(Self) => Bare(Advance(Self))
  BY <1>1, <1>2, <1>3, TokenHides DEF Sound
<1>8. /\ Bare(Self) => Bare(Advance(Self))
      /\ \A t : HidesAll(Self, t) => HidesAll(Advance(Self), t)
  BY <1>2, <1>5, LowerKeeps, LowerHides
<1> QED BY <1>2, <1>3, <1>4, <1>5, <1>6, <1>7, <1>8

(* ... and one that reads a token.                                         *)
LEMMA ReadStep ==
  ASSUME NEW texts, Types(texts), Nested,
         NEW b \in ActSet(texts), Become(b),
         b.frames = Advance(Self).frames, b.pending = <<>>,
         Called(macros, b), InDirective(b), Len(acts) > 1 =>
           b.phase \in Expanding,
         macros' = macros, status' \in {"running", "ok", "oom"}
  PROVE  Types(texts)' /\ Nested'
<1>1. <<>> \in texts /\ Self \in ActSet(texts) /\ Layered(Self) /\ Hidden(Self)
  BY Reading DEF Types, Sound
<1>2. Sound(macros, b)
  BY <1>1, ReadSound
<1> QED BY <1>2, BecomeKeeps

(* The loop of qcc_pp_run: a token passes through, or a directive starts.  *)
LEMMA ScanKeeps ==
  ASSUME NEW texts, Types(texts), Nested,
         Finish \/ StartDirective \/ DropNewline \/ EmitToken
  PROVE  Types(texts)' /\ Nested'
<1> DEFINE r == Advance(Self)
           t == Token(Self)
<1>1. /\ r \in ActSet(texts) /\ r.pending = <<>> /\ r.phase = Self.phase
      /\ t \in TokenSet(texts)
      /\ ~FromExpansion(Self) => Bare(r)
      /\ Eof \in TokenSet(texts)
  BY Reading, EofType DEF Types
<1> HIDE DEF r, t
<1>2. CASE Finish
  <2>0. r.out \in Seq(TokenSet(texts))
          /\ Append(r.out, Eof) \in Seq(TokenSet(texts))
    BY <1>1 DEF ActSet
  <2>1. PICK b : b = [r EXCEPT !.out = Append(@, Eof)]
    OBVIOUS
  <2>2. b \in ActSet(texts) /\ b.frames = r.frames /\ b.pending = <<>>
          /\ b.phase = "scan"
    BY <1>1, <1>2, <2>0, <2>1 DEF ActSet, Finish, At
  <2>3. Called(macros, b) /\ InDirective(b) /\ b.phase \in Expanding
    BY <2>2 DEF Called, InDirective, Expanding
  <2>4. Become(b) /\ macros' = macros /\ status' = "ok"
    BY <1>2, <2>1 DEF Finish, r
  <2> QED BY <2>2, <2>3, <2>4, ReadStep DEF r
<1>3. CASE StartDirective
  <2>1. PICK b : b = Goto(r, "directive")
    OBVIOUS
  <2>2. /\ b \in ActSet(texts) /\ b.frames = r.frames /\ b.pending = <<>>
        /\ b.phase = "directive"
    BY <1>1, <2>1 DEF ActSet, Goto, Phases
  <2>3. Bare(b)
    BY <1>1, <1>3, <2>2, SameFrames DEF StartDirective, Directive
  <2>4. Called(macros, b) /\ InDirective(b)
    BY <2>2, <2>3 DEF Called, InDirective
  <2>5. Become(b) /\ macros' = macros /\ status' = "running" /\ Len(acts) = 1
    BY <1>3, <2>1 DEF StartDirective, r, Directive, Driver, At
  <2> QED BY <2>2, <2>4, <2>5, ReadStep DEF r
<1>4. CASE DropNewline
  <2>1. r.phase = "scan"
    BY <1>1, <1>4 DEF DropNewline, At
  <2>2. Called(macros, r) /\ InDirective(r) /\ r.phase \in Expanding
    BY <2>1 DEF Called, InDirective, Expanding
  <2>3. Become(r) /\ macros' = macros /\ status' = "running"
    BY <1>4 DEF DropNewline, r, At
  <2> QED BY <1>1, <2>2, <2>3, ReadStep DEF r
<1>5. CASE EmitToken
  <2>1. PICK b : b = Emit(r, t)
    OBVIOUS
  <2>2. b \in ActSet(texts) /\ b.frames = r.frames /\ b.pending = <<>>
          /\ b.phase = "scan"
    BY <1>1, <2>1, EmitType DEF Types
  <2>3. Called(macros, b) /\ InDirective(b) /\ b.phase \in Expanding
    BY <2>2 DEF Called, InDirective, Expanding
  <2>4. Become(b) /\ macros' = macros /\ status' = "running"
    BY <1>5, <2>1 DEF EmitToken, r, t, At
  <2> QED BY <2>2, <2>3, <2>4, ReadStep DEF r
<1> QED BY <1>2, <1>3, <1>4, <1>5

-----------------------------------------------------------------------------
(* An activation that scans is sound when its frames are.                  *)
LEMMA ScanSound ==
  ASSUME NEW ms, NEW b, b.phase = "scan", b.pending = <<>>, Layered(b),
         Hidden(b)
  PROVE  Sound(ms, b) /\ b.phase \in Expanding
<1>1. Called(ms, b)
  BY DEF Called
<1>2. InDirective(b) /\ b.phase \in Expanding
  BY DEF InDirective, Expanding
<1>3. PushedBack(b)
  BY DEF PushedBack
<1> QED BY <1>1, <1>2, <1>3 DEF Sound

(* A replacement whose tokens hide its macro and all that is being         *)
(* scanned, and whose macro is not being scanned already, may be pushed.   *)
LEMMA PushSound ==
  ASSUME NEW texts, NEW a \in ActSet(texts), Layered(a), Hidden(a),
         NEW of \in Names, NEW toks \in Seq(TokenSet(texts)),
         \A i \in DOMAIN toks : of \in toks[i].hs /\ HidesAll(a, toks[i]),
         \A g \in DOMAIN a.frames : Replaces(a, g) => a.frames[g].of # of
  PROVE  /\ PushTokens(a, of, toks) \in ActSet(texts)
         /\ Layered(PushTokens(a, of, toks))
         /\ Hidden(PushTokens(a, of, toks))
         /\ PushTokens(a, of, toks).pending = a.pending
         /\ PushTokens(a, of, toks).phase = a.phase
         /\ PushTokens(a, of, toks).call = a.call
<1>1. CASE toks = <<>>
  BY <1>1 DEF PushTokens
<1>2. CASE toks # <<>>
  <2>1. PICK f : f = [of |-> of, toks |-> toks, delta |-> 0]
    OBVIOUS
  <2>2. f \in FrameSet(texts) /\ f.of = of /\ f.toks = toks
    BY <2>1 DEF FrameSet
  <2>3. PICK fs \in Seq(FrameSet(texts)) : fs = Append(a.frames, f)
    BY <2>2, AppendType DEF ActSet
  <2>4. PICK n \in Nat : n = Len(a.frames)
    BY DEF ActSet
  <2>5. /\ DOMAIN a.frames = 1 .. n /\ DOMAIN fs = 1 .. n + 1
        /\ \A k \in 1 .. n : fs[k] = a.frames[k]
        /\ fs[n + 1] = f
    BY <2>3, <2>4 DEF ActSet
  <2>6. PICK b : b = [a EXCEPT !.frames = fs]
    OBVIOUS
  <2>7. PushTokens(a, of, toks) = b
    BY <1>2, <2>1, <2>3, <2>6 DEF PushTokens
  <2>8. /\ b \in ActSet(texts) /\ b.frames = fs /\ b.pending = a.pending
        /\ b.phase = a.phase /\ b.call = a.call
    BY <2>3, <2>6 DEF ActSet
  <2>9. ASSUME NEW g \in 1 .. n
        PROVE  b.frames[g] = a.frames[g] /\ (Replaces(b, g) <=> Replaces(a, g))
    BY <2>5, <2>8 DEF Replaces
  <2>10. Layered(b)
    <3>1. ASSUME NEW g \in DOMAIN b.frames, NEW h \in DOMAIN b.frames,
                 g < h, Replaces(b, g)
          PROVE  Replaces(b, h) /\ b.frames[g].of # b.frames[h].of
      <4>1. g \in 1 .. n
        BY <2>5, <2>8, <3>1
      <4>2. CASE h \in 1 .. n
        BY <2>5, <2>9, <3>1, <4>1, <4>2 DEF Layered
      <4>3. CASE h = n + 1
        BY <2>2, <2>5, <2>8, <2>9, <3>1, <4>1, <4>3 DEF Replaces
      <4> QED BY <2>5, <2>8, <4>2, <4>3
    <3> QED BY <3>1 DEF Layered
  <2>11. Hidden(b)
    <3>1. ASSUME NEW h \in DOMAIN b.frames, NEW i \in DOMAIN b.frames[h].toks,
                 NEW g \in 1 .. h, Replaces(b, g)
          PROVE  b.frames[g].of \in b.frames[h].toks[i].hs
      <4>1. CASE h \in 1 .. n
        <5>1. g \in 1 .. n
          BY <4>1
        <5> QED BY <2>5, <2>9, <3>1, <4>1, <5>1 DEF Hidden, HidesBelow
      <4>2. CASE h = n + 1
        <5>1. b.frames[h].toks = toks
          BY <2>2, <2>5, <2>8, <4>2
        <5>2. CASE g \in 1 .. n
          BY <2>5, <2>9, <3>1, <5>1, <5>2 DEF HidesAll
        <5>3. CASE g = n + 1
          BY <2>2, <2>5, <2>8, <5>1, <5>3
        <5> QED BY <4>2, <5>2, <5>3
      <4> QED BY <2>5, <2>8, <4>1, <4>2
    <3> QED BY <3>1 DEF Hidden, HidesBelow
  <2> QED BY <2>7, <2>8, <2>10, <2>11
<1> QED BY <1>1, <1>2

(* A replacement as it is pushed has every hide set grown.                 *)
LEMMA MaterializedType ==
  ASSUME NEW texts, NEW toks \in Seq(TokenSet(texts)),
         NEW name \in TokenSet(texts),
         NEW hs \in SUBSET Names
  PROVE  /\ Materialized(toks, name, hs) \in Seq(TokenSet(texts))
         /\ \A i \in DOMAIN Materialized(toks, name, hs) :
              hs \subseteq Materialized(toks, name, hs)[i].hs
<1> DEFINE out == [i \in DOMAIN toks |->
                     [toks[i] EXCEPT !.space = IF i = 1 THEN name.space ELSE @,
                                     !.bol   = i = 1 /\ name.bol,
                                     !.hs    = @ \cup hs]]
<1>1. Materialized(toks, name, hs) = out
  BY DEF Materialized
<1>2. ASSUME NEW i \in DOMAIN toks
      PROVE  out[i] \in TokenSet(texts) /\ hs \subseteq out[i].hs
  <2>1. PICK t \in TokenSet(texts) : t = toks[i]
    OBVIOUS
  <2>2. PICK sp \in BOOLEAN : sp = IF i = 1 THEN name.space ELSE t.space
    BY DEF TokenSet
  <2>3. PICK bl \in BOOLEAN : bl = (i = 1 /\ name.bol)
    OBVIOUS
  <2>4. PICK h \in SUBSET Names : h = t.hs \cup hs
    BY DEF TokenSet
  <2>5. out[i] = [t EXCEPT !.space = sp, !.bol = bl, !.hs = h]
    BY <2>1, <2>2, <2>3, <2>4
  <2>6. out[i] \in TokenSet(texts) /\ out[i].hs = h
    BY <2>5 DEF TokenSet
  <2> QED BY <2>4, <2>6
<1>3. DOMAIN toks = 1 .. Len(toks) /\ Len(toks) \in Nat
        /\ DOMAIN out = DOMAIN toks
  OBVIOUS
<1>4. out \in Seq(TokenSet(texts))
  <2>1. out = [i \in 1 .. Len(toks) |-> out[i]]
    BY <1>3
  <2> HIDE DEF out
  <2> QED BY <1>2, <1>3, <2>1
<1> HIDE DEF out
<1> QED BY <1>1, <1>2, <1>3, <1>4

(* Every token hides hs; every replacement being scanned is in hs.         *)
AllHide(toks, hs) == \A i \in DOMAIN toks : hs \subseteq toks[i].hs
Covers(a, hs)     == \A g \in DOMAIN a.frames : Replaces(a, g) =>
  a.frames[g].of \in hs

Pushed(texts, b, a) ==
  /\ b \in ActSet(texts) /\ Layered(b) /\ Hidden(b)
  /\ b.pending = a.pending /\ b.phase = a.phase /\ b.call = a.call

(* What is pushed in the place of a name is hidden from what hid the name. *)
LEMMA ReplacementSound ==
  ASSUME NEW texts, NEW a \in ActSet(texts), Layered(a), Hidden(a),
         NEW of \in Names, NEW hs, NEW toks \in Seq(TokenSet(texts)),
         AllHide(toks, hs \cup {of}), Covers(a, hs \ {of})
  PROVE  Pushed(texts, PushTokens(a, of, toks), a)
<1>1. \A i \in DOMAIN toks : of \in toks[i].hs /\ HidesAll(a, toks[i])
  BY DEF HidesAll, AllHide, Covers
<1>2. \A g \in DOMAIN a.frames : Replaces(a, g) => a.frames[g].of # of
  BY DEF Covers
<1> QED BY <1>1, <1>2, PushSound DEF Pushed

(* What the table gives for a name; how a line number is spelled.          *)
LEMMA MacroType ==
  ASSUME NEW texts, Types(texts), NEW n \in Names
  PROVE  /\ macros[n] \in Definable(TokenSet(texts))
         /\ macros[n].body \in Seq(TokenSet(texts))
         /\ macros[n].params \in Seq(Names) /\ macros[n].variadic \in BOOLEAN
<1>1. macros[n] \in Definable(TokenSet(texts))
  BY DEF Types
<1> QED BY <1>1 DEF Definable

LEMMA NumeralType == ASSUME NEW n \in Int PROVE Numeral(n) \in Spellings
BY DEF Spellings, Numerals

(* expand_object and expand_builtin.                                       *)
LEMMA ObjectKeeps ==
  ASSUME NEW texts, Types(texts), Nested, ExpandObject \/ ExpandLine
  PROVE  Types(texts)' /\ Nested'
<1> DEFINE r == Advance(Self)
           t == Token(Self)
<1>1. /\ Self \in ActSet(texts) /\ r \in ActSet(texts) /\ r.pending = <<>>
      /\ r.phase = Self.phase /\ t \in TokenSet(texts) /\ HidesAll(r, t)
      /\ <<>> \in texts /\ Layered(Self) /\ Hidden(Self)
  BY Reading DEF Types, Sound
<1>2. Layered(r) /\ Hidden(r)
  BY <1>1, AdvanceType, LowerKeeps
<1>3. /\ status' = "running"/\ macros' = macros /\ Self.phase = "scan"
      /\ t.sym \in Names \ t.hs
  BY DEF ExpandObject, ExpandLine, At, Expandable
<1>4. ObjectHideSet(t) = t.hs \cup {t.sym} /\ ObjectHideSet(t) \in SUBSET Names
  BY <1>1, <1>3 DEF ObjectHideSet, TokenSet
<1>5. PICK toks \in Seq(TokenSet(texts)) :
        /\ Become(PushTokens(r, t.sym, toks))
        /\ \A i \in DOMAIN toks : ObjectHideSet(t) \subseteq toks[i].hs
  <2>1. CASE ExpandObject
    <3>1. macros[t.sym].body \in Seq(TokenSet(texts))
      BY <1>3, MacroType
    <3>2. Become(PushTokens(r, t.sym,
                   Materialized(macros[t.sym].body, t, ObjectHideSet(t))))
      BY <2>1 DEF ExpandObject
    <3> QED BY <1>1, <1>4, <3>1, <3>2, MaterializedType
  <2>2. CASE ExpandLine
    <3>1. PICK u : u = [t EXCEPT !.sym = Numeral(t.line), !.bol = FALSE,
                                 !.hs = ObjectHideSet(t)]
      OBVIOUS
    <3>2. Numeral(t.line) \in Spellings
      BY <1>1, NumeralType DEF TokenSet
    <3>3. u \in TokenSet(texts) /\ u.hs = ObjectHideSet(t)
      BY <1>1, <1>4, <3>1, <3>2 DEF TokenSet
    <3>4. Become(PushTokens(r, t.sym, <<u>>))
      BY <2>2, <3>1 DEF ExpandLine
    <3>5. <<u>> \in Seq(TokenSet(texts)) /\ DOMAIN <<u>> = {1} /\ <<u>>[1] = u
      BY <3>3
    <3> QED BY <3>3, <3>4, <3>5
  <2> QED BY <2>1, <2>2
<1> HIDE DEF r, t
<1>6. PICK b : b = PushTokens(r, t.sym, toks)
  OBVIOUS
<1>7. Covers(r, t.hs \ {t.sym})
  BY <1>1, <1>3 DEF HidesAll, Covers
<1>8. AllHide(toks, t.hs \cup {t.sym})
  BY <1>4, <1>5 DEF AllHide
<1>9. /\ b \in ActSet(texts) /\ Layered(b) /\ Hidden(b) /\ b.pending = <<>>
      /\ b.phase = "scan"
  <2>1. Pushed(texts, PushTokens(r, t.sym, toks), r)
    BY <1>1, <1>2, <1>3, <1>7, <1>8, ReplacementSound
  <2> QED BY <1>1, <1>3, <1>6, <2>1 DEF Pushed
<1>10. Sound(macros, b) /\ b.phase \in Expanding
  BY <1>9, ScanSound
<1>11. Become(b)
  BY <1>5, <1>6
<1> QED BY <1>3, <1>9, <1>10, <1>11, BecomeKeeps

-----------------------------------------------------------------------------
Invoking == {"lookahead", "collect", "substitute"}

(* The arguments answer the parameters.                                    *)
Answered(m, args) ==
  /\ DOMAIN m.params \subseteq DOMAIN args
  /\ m.variadic => Len(m.params) + 1 \in DOMAIN args

-----------------------------------------------------------------------------
(* expand_function and collect_args: a step within a call, which keeps the *)
(* name and the replacements it hides.                                     *)
LEMMA InvokingStep ==
  ASSUME NEW texts, Types(texts), Nested,
         NEW b \in ActSet(texts), Become(b),
         b.frames = Advance(Self).frames, b.pending = <<>>,
           b.phase \in Invoking,
         HidesAll(Advance(Self), b.call.name),
         b.call.name.sym \in Names \ b.call.name.hs,
         b.phase = "substitute" =>
           /\ HidesAll(Advance(Self), b.call.rparen)
           /\ Answered(macros[b.call.name.sym], b.call.args),
         macros' = macros, status' \in {"running", "ok", "oom"}
  PROVE  Types(texts)' /\ Nested'
<1>1. HidesAll(b, b.call.name)
        /\ (b.phase = "substitute" => HidesAll(b, b.call.rparen))
  BY SameFrames
<1>2. Called(macros, b)
  BY <1>1 DEF Called, Answered
<1>3. InDirective(b) /\ b.phase \in Expanding
  BY DEF InDirective, Expanding, Invoking
<1> QED BY <1>2, <1>3, ReadStep

(* The name of a function-like macro is remembered.                        *)
LEMMA StartCallKeeps ==
  ASSUME NEW texts, Types(texts), Nested, StartCall
  PROVE  Types(texts)' /\ Nested'
<1> DEFINE r == Advance(Self)
           t == Token(Self)
<1>1. /\ r \in ActSet(texts) /\ r.pending = <<>> /\ r.call \in CallSet(texts)
      /\ t \in TokenSet(texts) /\ HidesAll(r, t) /\ t.sym \in Names \ t.hs
  BY Reading DEF ActSet, StartCall, Expandable
<1>2. Become([Goto(r, "lookahead") EXCEPT !.call.name = t])
  BY DEF StartCall
<1>3. macros' = macros /\ status' = "running"
  BY DEF StartCall, At
<1> HIDE DEF r, t
<1>4. PICK c : c = [r.call EXCEPT !.name = t]
  OBVIOUS
<1>5. c \in CallSet(texts) /\ c.name = t
  BY <1>1, <1>4 DEF CallSet
<1>6. PICK b : b = [Goto(r, "lookahead") EXCEPT !.call.name = t]
  OBVIOUS
<1>7. /\ b \in ActSet(texts) /\ b.frames = r.frames /\ b.pending = <<>>
      /\ b.phase = "lookahead" /\ b.call = c
  BY <1>1, <1>4, <1>5, <1>6 DEF ActSet, Goto, Phases
<1>8. Become(b)
  BY <1>2, <1>6
<1>9. /\ HidesAll(r, b.call.name) /\ b.call.name.sym \in Names \ b.call.name.hs
      /\ b.phase \in Invoking /\ b.phase # "substitute"
  BY <1>1, <1>5, <1>7 DEF Invoking
<1> QED BY <1>3, <1>7, <1>8, <1>9, InvokingStep DEF r

(* What a read within a call may rely on.                                  *)
LEMMA InvokingRead ==
  ASSUME NEW texts, Types(texts), Nested, Self.phase \in Invoking
  PROVE  /\ Advance(Self) \in ActSet(texts) /\ Advance(Self).pending = <<>>
         /\ Advance(Self).phase = Self.phase
         /\ Advance(Self).call = Self.call /\ Self.call \in CallSet(texts)
         /\ HidesAll(Advance(Self), Self.call.name)
         /\ Self.call.name.sym \in Names \ Self.call.name.hs
         /\ Token(Self) \in TokenSet(texts)
              /\ HidesAll(Advance(Self), Token(Self))
         /\ <<>> \in texts
<1>1. Called(macros, Self) /\ Self \in ActSet(texts)
  BY Reading DEF Sound
<1>2. HidesAll(Self, Self.call.name)
        /\ Self.call.name.sym \in Names \ Self.call.name.hs
  BY <1>1 DEF Called, Invoking
<1>3. Self.call \in CallSet(texts)
  BY <1>1 DEF ActSet
<1> QED BY <1>2, <1>3, Reading DEF Types

(* The tokens of the call up to its closing parenthesis.                   *)
LEMMA CollectKeeps ==
  ASSUME NEW texts, Types(texts), Nested,
         SkipNewline \/ OpenParen \/ CollectNewline \/ Comma \/ CollectToken
  PROVE  Types(texts)' /\ Nested'
<1> DEFINE r == Advance(Self)
           t == Token(Self)
<1>1. /\ Self.phase \in Invoking /\ macros' = macros /\ status' = "running"
  BY DEF SkipNewline, OpenParen, CollectNewline, Comma, CollectToken, At,
     Invoking
<1>2. /\ r \in ActSet(texts) /\ r.pending = <<>> /\ r.phase = Self.phase
      /\ r.call = Self.call /\ r.call \in CallSet(texts)
      /\ HidesAll(r, r.call.name) /\ r.call.name.sym \in Names \ r.call.name.hs
      /\ t \in TokenSet(texts) /\ HidesAll(r, t)
  BY <1>1, InvokingRead
<1>3. ASSUME NEW b, Become(b), NEW c \in CallSet(texts),
             NEW p \in {"lookahead", "collect"},
             c.name = r.call.name,
               b = [[r EXCEPT !.phase = p] EXCEPT !.call = c]
      PROVE  Types(texts)' /\ Nested'
  <2> HIDE DEF r, t
  <2>1. /\ b \in ActSet(texts) /\ b.frames = r.frames /\ b.pending = <<>>
        /\ b.phase = p /\ b.call = c
    BY <1>2, <1>3 DEF ActSet, Phases
  <2>2. /\ HidesAll(r, b.call.name)
             /\ b.call.name.sym \in Names \ b.call.name.hs
        /\ b.phase \in Invoking /\ b.phase # "substitute"
    BY <1>2, <1>3, <2>1 DEF Invoking
  <2> QED BY <1>1, <1>3, <2>1, <2>2, InvokingStep DEF r
<1>4. CASE SkipNewline
  <2>1. Become(r) /\ r.phase = "lookahead"
    BY <1>2, <1>4 DEF SkipNewline, At
  <2> HIDE DEF r
  <2>2. r = [[r EXCEPT !.phase = "lookahead"] EXCEPT !.call = r.call]
    BY <1>2, <2>1 DEF ActSet
  <2> QED BY <1>2, <1>3, <2>1, <2>2
<1>5. CASE OpenParen
  <2>1. Become(Goto(r, "collect"))
    BY <1>5 DEF OpenParen
  <2> HIDE DEF r
  <2>2. Goto(r, "collect") = [[r EXCEPT !.phase = "collect"] EXCEPT !.call
                               = r.call]
    BY <1>2 DEF ActSet, Goto
  <2> QED BY <1>2, <1>3, <2>1, <2>2
<1>6. CASE CollectNewline
  <2>1. Become([r EXCEPT !.call.gap = TRUE]) /\ r.phase = "collect"
    BY <1>2, <1>6 DEF CollectNewline, At
  <2> HIDE DEF r
  <2>2. PICK c : c = [r.call EXCEPT !.gap = TRUE]
    OBVIOUS
  <2>3. c \in CallSet(texts) /\ c.name = r.call.name
    BY <1>2, <2>2 DEF CallSet
  <2>4. [r EXCEPT !.call.gap = TRUE] = [[r EXCEPT !.phase
                                         = "collect"] EXCEPT !.call = c]
    BY <1>2, <2>1, <2>2 DEF ActSet
  <2> QED BY <1>3, <2>1, <2>3, <2>4
<1>7. CASE Comma
  <2>1. /\ Become([r EXCEPT !.call.args = Append(@, r.call.cur),
                            !.call.cur = <<>>, !.call.gap = FALSE])
        /\ r.phase = "collect"
    BY <1>2, <1>7 DEF Comma, At
  <2> HIDE DEF r
  <2>2. PICK as \in Seq(Seq(TokenSet(texts))) :
          as = Append(r.call.args, r.call.cur)
    BY <1>2, AppendType DEF CallSet
  <2>3. PICK none \in Seq(TokenSet(texts)) : none = <<>>
    BY NoneType
  <2>4. PICK c : c = [r.call EXCEPT !.args = as, !.cur = none, !.gap = FALSE]
    OBVIOUS
  <2>5. c \in CallSet(texts) /\ c.name = r.call.name
    BY <1>2, <2>4 DEF CallSet
  <2>6. [r EXCEPT !.call.args = Append(@, r.call.cur), !.call.cur = <<>>,
                  !.call.gap = FALSE]
          = [[r EXCEPT !.phase = "collect"] EXCEPT !.call = c]
    BY <1>2, <2>1, <2>2, <2>3, <2>4 DEF ActSet, CallSet
  <2> QED BY <1>3, <2>1, <2>5, <2>6
<1>8. CASE CollectToken
  <2>1. r.phase = "collect"
    BY <1>2, <1>8 DEF CollectToken, At
  <2>2. PICK u : u = [t EXCEPT !.space = @ \/ r.call.gap]
    OBVIOUS
  <2>3. PICK dep : dep = CASE t.sym = "(" -> r.call.depth + 1
                           [] t.sym = ")" -> r.call.depth - 1
                           [] OTHER -> r.call.depth
    OBVIOUS
  <2>4. PICK cu : cu = Append(r.call.cur, u)
    OBVIOUS
  <2>5. Become([r EXCEPT !.call.cur = cu, !.call.gap = FALSE, !.call.depth
                = dep])
    BY <1>2, <1>8, <2>2, <2>3, <2>4 DEF CollectToken
  <2> HIDE DEF r, t
  <2>6. u \in TokenSet(texts)
    BY <1>2, <2>2 DEF TokenSet, CallSet
  <2>7. cu \in Seq(TokenSet(texts)) /\ dep \in Int
    BY <1>2, <2>3, <2>4, <2>6, AppendType DEF CallSet
  <2>8. PICK c : c = [r.call EXCEPT !.cur = cu, !.gap = FALSE, !.depth = dep]
    OBVIOUS
  <2>9. c \in CallSet(texts) /\ c.name = r.call.name
    BY <1>2, <2>7, <2>8 DEF CallSet
  <2>10. [r EXCEPT !.call.cur = cu, !.call.gap = FALSE, !.call.depth = dep]
           = [[r EXCEPT !.phase = "collect"] EXCEPT !.call = c]
    BY <1>2, <2>1, <2>8 DEF ActSet, CallSet
  <2> QED BY <1>3, <2>5, <2>9, <2>10
<1> QED BY <1>4, <1>5, <1>6, <1>7, <1>8

(* The closing parenthesis: the count of arguments answers the parameters, *)
(* and the parenthesis hides what the call was read in.                    *)
LEMMA CloseKeeps ==
  ASSUME NEW texts, Types(texts), Nested, CloseParen
  PROVE  Types(texts)' /\ Nested'
<1> DEFINE r == Advance(Self)
           t == Token(Self)
           m == Macro(Self)
           as == Arguments(Self)
<1>1. /\ Self.phase = "collect" /\ Self.phase \in Invoking
      /\ macros' = macros /\ status' = "running"
  BY DEF CloseParen, At, Invoking
<1>2. /\ r \in ActSet(texts) /\ r.pending = <<>>
      /\ r.call = Self.call /\ r.call \in CallSet(texts)
      /\ HidesAll(r, r.call.name) /\ r.call.name.sym \in Names \ r.call.name.hs
      /\ t \in TokenSet(texts) /\ HidesAll(r, t)
  BY <1>1, InvokingRead
<1>3. m = macros[r.call.name.sym] /\ m \in Definable(TokenSet(texts))
  BY <1>2, MacroType DEF Macro
<1>4. as \in Seq(Seq(TokenSet(texts))) /\ Answered(m, as)
  <2>1. PICK given \in Seq(Seq(TokenSet(texts))) : given = Self.call.args
    BY <1>2 DEF CallSet
  <2>2. PICK cur \in Seq(TokenSet(texts)) : cur = Self.call.cur
    BY <1>2 DEF CallSet
  <2>3. m.params \in Seq(Names) /\ Len(m.params) \in Nat
          /\ m.variadic \in BOOLEAN
    BY <1>3 DEF Definable
  <2>4. PICK named \in Seq(Seq(TokenSet(texts))) : named = NamedArguments(Self)
    BY <2>1, <2>2, AppendType DEF NamedArguments
  <2>5. CountOk(m, named)
    BY <2>4 DEF CloseParen
  <2>6. PICK last \in Seq(TokenSet(texts)) :
          last = IF CollectingVa(Self) THEN Self.call.cur ELSE <<>>
    BY <2>2, NoneType
  <2>7. CASE ~m.variadic
    <3>1. as = named
      BY <2>4, <2>7 DEF Arguments
    <3>2. m.params # <<>> => Len(named) = Len(m.params)
      BY <2>5 DEF CountOk
    <3>3. DOMAIN m.params \subseteq DOMAIN named
      BY <2>3, <3>2
    <3> QED BY <2>7, <3>1, <3>3 DEF Answered
  <2>8. CASE m.variadic
    <3>1. as = Append(named, last)
      BY <2>4, <2>6, <2>8 DEF Arguments
    <3>2. Len(named) = Len(m.params)
      BY <2>5, <2>8 DEF CountOk
    <3>3. as \in Seq(Seq(TokenSet(texts))) /\ Len(as) = Len(m.params) + 1
      BY <3>1, <3>2, AppendType
    <3>4. DOMAIN m.params \subseteq DOMAIN as /\ Len(m.params) + 1 \in DOMAIN as
      BY <2>3, <3>3
    <3> QED BY <3>3, <3>4 DEF Answered
  <2> QED BY <2>7, <2>8, <2>4
<1>5. Become([Goto(r, "substitute") EXCEPT !.call.args = as, !.call.rparen = t])
  BY DEF CloseParen
<1> HIDE DEF r, t, m, as
<1>6. PICK c : c = [r.call EXCEPT !.args = as, !.rparen = t]
  OBVIOUS
<1>7. c \in CallSet(texts) /\ c.name = r.call.name /\ c.args = as
        /\ c.rparen = t
  BY <1>2, <1>4, <1>6 DEF CallSet
<1>8. PICK b : b = [Goto(r, "substitute") EXCEPT !.call.args = as,
                    !.call.rparen = t]
  OBVIOUS
<1>9. /\ b \in ActSet(texts) /\ b.frames = r.frames /\ b.pending = <<>>
      /\ b.phase = "substitute" /\ b.call = c
  <2>1. [Goto(r, "substitute") EXCEPT !.call.args = as, !.call.rparen = t]
          = [[r EXCEPT !.phase = "substitute"] EXCEPT !.call = c]
    BY <1>2, <1>6 DEF ActSet, CallSet, Goto
  <2> QED BY <1>2, <1>7, <1>8, <2>1 DEF ActSet, Phases
<1>10. Become(b)
  BY <1>5, <1>8
<1>11. /\ HidesAll(r, b.call.name) /\ b.call.name.sym \in Names \ b.call.name.hs
       /\ HidesAll(r, b.call.rparen)
            /\ Answered(macros[b.call.name.sym], b.call.args)
       /\ b.phase \in Invoking
  BY <1>2, <1>3, <1>4, <1>7, <1>9 DEF Invoking
<1> QED BY <1>1, <1>9, <1>10, <1>11, InvokingStep DEF r

(* The call is given up: its name is emitted, and the token that ended it  *)
(* is read again, or has been read.                                        *)
LEMMA GiveUpKeeps ==
  ASSUME NEW texts, Types(texts), Nested, NotCalled \/ Unterminated
         \/ WrongCount
  PROVE  Types(texts)' /\ Nested'
<1> DEFINE r == Advance(Self)
           t == Token(Self)
           u == Unget(Self)
<1>1. /\ Self.phase \in Invoking /\ macros' = macros /\ status' = "running"
  BY DEF NotCalled, Unterminated, WrongCount, At, Invoking
<1>2. /\ r \in ActSet(texts) /\ r.pending = <<>>
      /\ r.call = Self.call /\ r.call \in CallSet(texts)
      /\ t \in TokenSet(texts) /\ HidesAll(r, t) /\ <<>> \in texts
      /\ Self.call.name \in TokenSet(texts)
  BY <1>1, InvokingRead DEF CallSet
<1>3. /\ FromExpansion(Self) \in BOOLEAN /\ (~FromExpansion(Self) => Bare(r))
      /\ Layered(r) /\ Hidden(r)
  BY <1>2, Reading, TokenType, AdvanceType, LowerKeeps DEF Sound
<1>4. CASE WrongCount
  <2>1. Become(Emit(r, Self.call.name))
    BY <1>4 DEF WrongCount
  <2>2. /\ Emit(r, Self.call.name) \in ActSet(texts)
        /\ Emit(r, Self.call.name).frames = r.frames
        /\ Emit(r, Self.call.name).pending = <<>>
        /\ Emit(r, Self.call.name).phase = "scan"
    BY <1>2, EmitType
  <2>3. PICK b : b = Emit(r, Self.call.name)
    OBVIOUS
  <2>4. Layered(b) /\ Hidden(b)
    BY <1>3, <2>2, <2>3, SameFrames
  <2>5. Sound(macros, b) /\ b.phase \in Expanding
    BY <2>2, <2>3, <2>4, ScanSound
  <2> QED BY <1>1, <2>1, <2>2, <2>3, <2>5, BecomeKeeps
<1>5. CASE NotCalled \/ Unterminated
  <2>1. Become(Emit(u, Self.call.name))
    BY <1>5 DEF NotCalled, Unterminated
  <2>2. u = [r EXCEPT !.pending = <<[tok |-> t, fe |-> FromExpansion(Self)]>>]
    BY DEF Unget
  <2> HIDE DEF r, t, u
  <2>3. PICK q \in PendingSet(texts) :
          q = [tok |-> t, fe |-> FromExpansion(Self)]
    BY <1>2, <1>3 DEF PendingSet
  <2>4. PICK pq \in Seq(PendingSet(texts)) : pq = <<q>> /\ pq[1] = q
    BY NoneType, <<q>> \in Seq(PendingSet(texts)), <<q>>[1] = q
  <2>5. u = [r EXCEPT !.pending = pq]
    BY <2>2, <2>3, <2>4
  <2>6. u \in ActSet(texts) /\ u.pending = pq /\ u.frames = r.frames
    BY <1>2, <2>4, <2>5 DEF ActSet
  <2>7. PICK b : b = Emit(u, Self.call.name)
    OBVIOUS
  <2>8. /\ b \in ActSet(texts) /\ b.frames = r.frames /\ b.pending = pq
        /\ b.phase = "scan"
    BY <1>2, <2>6, <2>7, EmitType
  <2>9. /\ Layered(b) /\ Hidden(b) /\ HidesAll(b, t)
        /\ ~FromExpansion(Self) => Bare(b)
    BY <1>2, <1>3, <2>8, SameFrames
  <2>10. PushedBack(b)
    <3>1. b.pending[1].tok = t /\ b.pending[1].fe = FromExpansion(Self)
      BY <2>3, <2>4, <2>8
    <3> QED BY <2>8, <2>9, <3>1 DEF PushedBack
  <2>11. Called(macros, b) /\ InDirective(b) /\ b.phase \in Expanding
    BY <2>8 DEF Called, InDirective, Expanding
  <2>12. Sound(macros, b)
    BY <2>9, <2>10, <2>11 DEF Sound
  <2>13. Become(b)
    BY <2>1, <2>7
  <2> QED BY <1>1, <2>8, <2>11, <2>12, <2>13, BecomeKeeps
<1> QED BY <1>4, <1>5

-----------------------------------------------------------------------------
(* substitute: an element of the replacement list becomes tokens of os;    *)
(* the frames are untouched.                                               *)
LEMMA SubstitutedSound ==
  ASSUME NEW texts, NEW ms, NEW a \in ActSet(texts), Sound(ms, a),
         a.phase = "substitute", NEW os \in Seq(TokenSet(texts)), NEW n \in Nat,
         NEW b, b = Substituted(a, os, n)
  PROVE  b \in ActSet(texts) /\ Sound(ms, b) /\ b.phase \in Expanding
<1>1. a.call \in CallSet(texts)
  BY DEF ActSet
<1>2. PICK x \in Nat \ {0} : x = a.call.next + n
  BY <1>1 DEF CallSet
<1>3. PICK c : c = [[a.call EXCEPT !.os = os] EXCEPT !.next = x]
  OBVIOUS
<1>4. c \in CallSet(texts) /\ c.name = a.call.name
        /\ c.rparen = a.call.rparen /\ c.args = a.call.args
  BY <1>1, <1>3 DEF CallSet
<1>5. b = [a EXCEPT !.call = c]
  BY <1>1, <1>2, <1>3 DEF Substituted, ActSet, CallSet
<1>6. /\ b \in ActSet(texts) /\ b.frames = a.frames /\ b.pending = a.pending
      /\ b.phase = "substitute" /\ b.call = c
  BY <1>4, <1>5 DEF ActSet
<1>7. a.pending = <<>>
  BY DEF Sound, PushedBack
<1>8. Layered(b) /\ Hidden(b) /\ \A t : HidesAll(a, t) => HidesAll(b, t)
  BY <1>6, SameFrames DEF Sound
<1>9. Called(ms, b)
  BY <1>4, <1>6, <1>8 DEF Sound, Called
<1>10. InDirective(b) /\ PushedBack(b) /\ b.phase \in Expanding
  BY <1>6, <1>7 DEF InDirective, Expanding, PushedBack
<1> QED BY <1>6, <1>8, <1>9, <1>10 DEF Sound

LEMMA SubstituteStep ==
  ASSUME NEW texts, Types(texts), Nested, Self.phase = "substitute",
         NEW os \in Seq(TokenSet(texts)), NEW n \in Nat,
         Become(Substituted(Self, os, n)), macros' = macros, status' = "running"
  PROVE  Types(texts)' /\ Nested'
<1>1. PICK b : b = Substituted(Self, os, n)
  OBVIOUS
<1>2. b \in ActSet(texts) /\ Sound(macros, b) /\ b.phase \in Expanding
  BY <1>1, Reading, SubstitutedSound
<1>3. Become(b)
  BY <1>1
<1> QED BY <1>2, <1>3, BecomeKeeps

(* What substitute indexes: an argument, ...                               *)
LEMMA ArgumentType ==
  ASSUME NEW texts, Types(texts), Nested, Self.phase = "substitute",
         NEW t, NEW p \in Params(Self, t)
  PROVE  Self.call.args[p] \in Seq(TokenSet(texts))
<1>1. Called(macros, Self) /\ Self.call \in CallSet(texts)
  BY Reading DEF Sound, ActSet
<1>2. PICK as \in Seq(Seq(TokenSet(texts))) : as = Self.call.args
  BY <1>1 DEF CallSet
<1>3. PICK m : m = macros[Self.call.name.sym]
  OBVIOUS
<1>4. DOMAIN m.params \subseteq DOMAIN as
        /\ (m.variadic => Len(m.params) + 1 \in DOMAIN as)
  BY <1>1, <1>2, <1>3 DEF Called
<1>5. p \in DOMAIN m.params \/ (m.variadic /\ p = Len(m.params) + 1)
  <2>1. p \in ParamIndex(m, t)
    BY <1>3 DEF Params, Macro
  <2> QED BY <2>1 DEF ParamIndex
<1> QED BY <1>2, <1>4, <1>5

(* ... an element of the replacement list and the one after it.            *)
LEMMA ElementType ==
  ASSUME NEW texts, Types(texts), Nested, Self.phase = "substitute"
  PROVE  /\ Body(Self) \in Seq(TokenSet(texts))
         /\ Replacing(Self) => Element(Self) \in TokenSet(texts)
         /\ Followed(Self) => Following(Self) \in TokenSet(texts)
         /\ Self.call.next \in Nat \ {0}
         /\ Self.call.os \in Seq(TokenSet(texts))
              /\ Self.call.name \in TokenSet(texts)
<1>1. Called(macros, Self) /\ Self.call \in CallSet(texts)
  BY Reading DEF Sound, ActSet
<1>2. Body(Self) \in Seq(TokenSet(texts))
  BY <1>1, MacroType DEF Called, Body, Macro
<1> QED BY <1>1, <1>2 DEF CallSet, Replacing, Element, Followed, Following

(* What # and ## make is a token again.                                    *)
LEMMA PlacemarkerType ==
  ASSUME NEW texts, <<>> \in texts
  PROVE  Placemarker \in TokenSet(texts)
<1>1. "placemarker" \in Spellings
  BY DEF Spellings
<1> QED BY <1>1, EofType DEF Placemarker, TokenSet

LEMMA OperandType ==
  ASSUME NEW texts, <<>> \in texts, NEW toks \in Seq(TokenSet(texts))
  PROVE  Operand(toks) \in Seq(TokenSet(texts))
<1>1. <<Placemarker>> \in Seq(TokenSet(texts))
  BY PlacemarkerType
<1> QED BY <1>1 DEF Operand

LEMMA SynthesizedType ==
  ASSUME NEW texts, NEW sym \in Spellings, NEW text \in texts,
         NEW anchor \in TokenSet(texts)
  PROVE  Synthesized(sym, text, anchor) \in TokenSet(texts)
BY DEF Synthesized, TokenSet

LEMMA PastedType ==
  ASSUME NEW texts, <<>> \in texts, NEW left \in TokenSet(texts),
         NEW right \in TokenSet(texts), NEW anchor \in TokenSet(texts)
  PROVE  Pasted(left, right, anchor) \in TokenSet(texts)
<1>1. CASE <<left.sym, right.sym>> \in DOMAIN Pastes
  <2>1. Pastes[<<left.sym, right.sym>>] \in Spellings
    BY <1>1, ExpansionAssumption DEF Spellings
  <2> QED BY <1>1, <2>1, SynthesizedType DEF Pasted
<1>2. CASE <<left.sym, right.sym>> \notin DOMAIN Pastes
  BY <1>2 DEF Pasted
<1> QED BY <1>1, <1>2

LEMMA GluedType ==
  ASSUME NEW texts, <<>> \in texts, NEW os \in Seq(TokenSet(texts)),
         NEW rhs \in Seq(TokenSet(texts)), NEW anchor \in TokenSet(texts)
  PROVE  Glued(os, rhs, anchor) \in Seq(TokenSet(texts))
<1>1. CASE os = <<>>
  BY <1>1, OperandType DEF Glued
<1>2. CASE os # <<>> /\ rhs = <<>>
  BY <1>2 DEF Glued
<1>3. CASE os # <<>> /\ rhs # <<>>
  <2>1. PICK left \in TokenSet(texts) : left = os[Len(os)]
    <3>1. Len(os) \in DOMAIN os
      BY <1>3
    <3>2. os[Len(os)] \in TokenSet(texts)
      BY <3>1
    <3> QED BY <3>2
  <2>2. PICK right \in TokenSet(texts) : right = rhs[1]
    BY <1>3, HeadType
  <2>3. PICK x \in TokenSet(texts) :
          x = IF left = Placemarker THEN right ELSE Pasted(left, right, anchor)
    BY PastedType
  <2>4. PICK xs \in Seq(TokenSet(texts)) : xs = <<x>>
    BY <<x>> \in Seq(TokenSet(texts))
  <2>5. PICK front \in Seq(TokenSet(texts)) : front = SubSeq(os, 1, Len(os) - 1)
    BY FrontType
  <2>6. PICK back \in Seq(TokenSet(texts)) : back = Tail(rhs)
    BY <1>3, HeadType
  <2>7. Glued(os, rhs, anchor) = front \o xs \o back
    BY <1>3, <2>1, <2>2, <2>3, <2>4, <2>5, <2>6 DEF Glued
  <2> QED BY <2>7
<1> QED BY <1>1, <1>2, <1>3

(* The elements that need no expansion.                                    *)
LEMMA OperandsKeep ==
  ASSUME NEW texts, Types(texts), Nested, Paste \/ LeftOperand \/ CopyElement
  PROVE  Types(texts)' /\ Nested'
<1>1. /\ Self.phase = "substitute" /\ macros' = macros /\ status' = "running"
      /\ Replacing(Self) /\ <<>> \in texts
  BY DEF Paste, LeftOperand, CopyElement, At, Types
<1>2. /\ Element(Self) \in TokenSet(texts)
           /\ Self.call.os \in Seq(TokenSet(texts))
      /\ Followed(Self) => Following(Self) \in TokenSet(texts)
  BY <1>1, ElementType
<1>3. CASE Paste
  <2> DEFINE ps  == Params(Self, Following(Self))
             rhs == IF ps = {} THEN <<Following(Self)>>
                    ELSE Self.call.args[CHOOSE p \in ps : TRUE]
  <2>1. Become(Substituted(Self, Glued(Self.call.os, rhs, Element(Self)), 2))
    BY <1>3 DEF Paste
  <2>2. Following(Self) \in TokenSet(texts)
    BY <1>2, <1>3 DEF Paste, Pasting
  <2>3. rhs \in Seq(TokenSet(texts))
    <3>1. CASE ps = {}
      BY <2>2, <3>1
    <3>2. CASE ps # {}
      <4>1. (CHOOSE p \in ps : TRUE) \in ps
        BY <3>2
      <4> QED BY <1>1, <3>2, <4>1, ArgumentType
    <3> QED BY <3>1, <3>2
  <2> HIDE DEF rhs
  <2>4. Glued(Self.call.os, rhs, Element(Self)) \in Seq(TokenSet(texts))
    BY <1>1, <1>2, <2>3, GluedType
  <2> QED BY <1>1, <2>1, <2>4, SubstituteStep
<1>4. CASE LeftOperand
  <2>1. PICK p \in Params(Self, Element(Self)) :
          Become(Substituted(Self, Self.call.os \o Operand(Self.call.args[p]),
            1))
    BY <1>4 DEF LeftOperand
  <2>2. PICK toks \in Seq(TokenSet(texts)) : toks = Operand(Self.call.args[p])
    BY <1>1, ArgumentType, OperandType
  <2>3. Self.call.os \o toks \in Seq(TokenSet(texts))
    BY <1>2
  <2> QED BY <1>1, <2>1, <2>2, <2>3, SubstituteStep
<1>5. CASE CopyElement
  <2>1. Become(Substituted(Self, Append(Self.call.os, Element(Self)), 1))
    BY <1>5 DEF CopyElement
  <2>2. Append(Self.call.os, Element(Self)) \in Seq(TokenSet(texts))
    BY <1>2, AppendType
  <2> QED BY <1>1, <2>1, <2>2, SubstituteStep
<1> QED BY <1>3, <1>4, <1>5

-----------------------------------------------------------------------------
(* Every set of n positions has an n-th one.                               *)
LEMMA NthPosition ==
  ASSUME NEW N \in Nat, NEW P \in SUBSET (1 .. N), NEW n \in 1 .. Cardinality(P)
  PROVE  Nth(P, n) \in P
<1> DEFINE Upto(m) == {q \in P : q <= m}
           enough  == {m \in Nat : n <= Cardinality(Upto(m))}
<1>0. \A q \in P : q \in Nat /\ 1 <= q /\ q <= N
  OBVIOUS
<1>1. IsFiniteSet(P) /\ \A m : IsFiniteSet(Upto(m))
        /\ Cardinality(Upto(m)) \in Nat
  <2>1. IsFiniteSet(1 .. N)
    BY FS_Interval
  <2>2. IsFiniteSet(P)
    BY <2>1, FS_Subset
  <2>3. ASSUME NEW m PROVE IsFiniteSet(Upto(m)) /\ Cardinality(Upto(m)) \in Nat
    <3>1. Upto(m) \subseteq P
      OBVIOUS
    <3> QED BY <2>2, <3>1, FS_Subset, FS_CardinalityType
  <2> QED BY <2>2, <2>3
<1>2. N \in enough
  <2>1. Upto(N) = P
    BY <1>0
  <2>2. n <= Cardinality(P)
    BY <1>1
  <2> QED BY <2>1, <2>2
<1>3. PICK m \in enough : \A k \in enough : m <= k
  <2>1. enough \in SUBSET Nat /\ enough # {}
    BY <1>2
  <2> HIDE DEF enough
  <2> QED BY <2>1, LeastNatural
<1>4. m \in Nat /\ n <= Cardinality(Upto(m)) /\ n \in Nat /\ n > 0
  <2>1. m \in Nat /\ n <= Cardinality(Upto(m))
    OBVIOUS
  <2>2. Cardinality(P) \in Nat
    BY <1>1, FS_CardinalityType
  <2> QED BY <2>1, <2>2
<1>5. m # 0
  <2>1. Upto(0) = {}
    <3>1. ASSUME NEW q \in Upto(0) PROVE FALSE
      <4>1. q \in P /\ q <= 0
        OBVIOUS
      <4>2. q \in Nat /\ 1 <= q
        BY <1>0, <4>1
      <4> HIDE DEF Upto
      <4> QED BY <4>1, <4>2
    <3> HIDE DEF Upto
    <3> QED BY <3>1
  <2>2. Cardinality(Upto(0)) = 0
    BY <2>1, FS_EmptySet
  <2> QED BY <1>4, <2>2
<1>6. m - 1 \in Nat /\ Cardinality(Upto(m - 1)) < n
  <2>1. m - 1 \in Nat /\ m - 1 < m
    BY <1>4, <1>5
  <2>2. ~(n <= Cardinality(Upto(m - 1)))
    <3>1. m - 1 \notin enough
      <4>1. ~(m <= m - 1)
        BY <1>4
      <4> HIDE DEF enough
      <4> QED BY <1>3, <4>1
    <3> QED BY <2>1, <3>1
  <2>3. Cardinality(Upto(m - 1)) \in Nat
    BY <1>1
  <2> HIDE DEF Upto
  <2> QED BY <1>4, <2>1, <2>2, <2>3
<1>7. /\ \A q \in P : q <= m <=> (q <= m - 1 \/ q = m)
      /\ ~(m <= m - 1) /\ m <= m
  BY <1>0, <1>4
<1>8. m \in P /\ Cardinality(Upto(m)) = n
  <2>1. CASE m \in P
    <3>1. Upto(m) = Upto(m - 1) \cup {m} /\ m \notin Upto(m - 1)
      BY <1>7, <2>1
    <3>2. Cardinality(Upto(m)) = Cardinality(Upto(m - 1)) + 1
      <4>1. IsFiniteSet(Upto(m - 1))
        BY <1>1
      <4> HIDE DEF Upto
      <4> QED BY <3>1, <4>1, FS_AddElement
    <3> HIDE DEF Upto
    <3> QED BY <1>1, <1>4, <1>6, <2>1, <3>2
  <2>2. CASE m \notin P
    <3>1. Upto(m) = Upto(m - 1)
      BY <1>7, <2>2
    <3> HIDE DEF Upto
    <3> QED BY <1>1, <1>4, <1>6, <3>1
  <2> QED BY <2>1, <2>2
<1> QED BY <1>8 DEF Nth

(* What is kept of a sequence is a sequence over the same set.             *)
LEMMA KeepType ==
  ASSUME NEW S, NEW s \in Seq(S), NEW P \in SUBSET DOMAIN s
  PROVE  Keep(s, P) \in Seq(S)
<1>1. Len(s) \in Nat /\ DOMAIN s = 1 .. Len(s)
  OBVIOUS
<1>2. P \in SUBSET (1 .. Len(s))
  BY <1>1
<1>3. Cardinality(P) \in Nat
  <2>1. IsFiniteSet(1 .. Len(s))
    BY <1>1, FS_Interval
  <2> QED BY <1>2, <2>1, FS_Subset, FS_CardinalityType
<1>4. ASSUME NEW n \in 1 .. Cardinality(P)
      PROVE  s[Nth(P, n)] \in S
  <2>1. Nth(P, n) \in P
    BY <1>1, <1>2, NthPosition
  <2> QED BY <2>1
<1> QED BY <1>3, <1>4 DEF Keep

(* The result of a call is pushed: the intersection of the hide sets of    *)
(* the name and the parenthesis still hides all that is being scanned, and *)
(* the name was not hidden from itself.                                    *)
LEMMA PushReplacementKeeps ==
  ASSUME NEW texts, Types(texts), Nested, PushReplacement
  PROVE  Types(texts)' /\ Nested'
<1> DEFINE a == Self
           c == Self.call
           toks == Keep(c.os, {i \in DOMAIN c.os : c.os[i] # Placemarker})
           hs == CallHideSet(c.name, c.rparen)
           new == Materialized(toks, c.name, hs)
<1>1. /\ a \in ActSet(texts) /\ Sound(macros, a) /\ c \in CallSet(texts)
      /\ a.phase = "substitute" /\ macros' = macros /\ status' = "running"
      /\ <<>> \in texts
  BY Reading DEF ActSet, PushReplacement, At, Types
<1>2. a.pending = <<>>
  BY <1>1 DEF Sound, PushedBack
<1>3. HidesAll(a, c.name) /\ HidesAll(a, c.rparen)
        /\ c.name.sym \in Names \ c.name.hs
  BY <1>1 DEF Sound, Called
<1>4. /\ c.name \in TokenSet(texts) /\ c.rparen \in TokenSet(texts)
      /\ c.os \in Seq(TokenSet(texts))
  BY <1>1 DEF CallSet
<1>5. toks \in Seq(TokenSet(texts))
  <2>1. {i \in DOMAIN c.os : c.os[i] # Placemarker} \in SUBSET DOMAIN c.os
    OBVIOUS
  <2> QED BY <1>4, <2>1, KeepType
<1>6. /\ hs = (c.name.hs \cap c.rparen.hs) \cup {c.name.sym}
      /\ hs \in SUBSET Names
  BY <1>3, <1>4 DEF CallHideSet, TokenSet
<1>7. Become([PushTokens(Goto(a, "scan"), c.name.sym, new) EXCEPT !.call
              = NoCall])
  BY DEF PushReplacement
<1> HIDE DEF a, c, toks, hs
<1>8. new \in Seq(TokenSet(texts)) /\ AllHide(new, hs)
  BY <1>4, <1>5, <1>6, MaterializedType DEF AllHide
<1> HIDE DEF new
<1>9. PICK d : d = Goto(a, "scan")
  OBVIOUS
<1>10. /\ d \in ActSet(texts) /\ d.frames = a.frames /\ d.pending = <<>>
       /\ d.phase = "scan"
  BY <1>1, <1>2, <1>9 DEF ActSet, Goto, Phases
<1>11. Layered(d) /\ Hidden(d) /\ HidesAll(d, c.name) /\ HidesAll(d, c.rparen)
  BY <1>1, <1>3, <1>10, SameFrames DEF Sound
<1>12. PICK both : both = c.name.hs \cap c.rparen.hs
  OBVIOUS
<1>13. Covers(d, both \ {c.name.sym}) /\ AllHide(new, both \cup {c.name.sym})
  BY <1>3, <1>6, <1>8, <1>11, <1>12 DEF Covers, HidesAll
<1>14. PICK e : e = PushTokens(d, c.name.sym, new)
  OBVIOUS
<1>15. Pushed(texts, e, d)
  BY <1>3, <1>8, <1>10, <1>11, <1>13, <1>14, ReplacementSound
<1>16. PICK b : b = [e EXCEPT !.call = NoCall]
  OBVIOUS
<1>17. /\ b \in ActSet(texts) /\ b.frames = e.frames /\ b.pending = <<>>
       /\ b.phase = "scan"
  <2>1. NoCall \in CallSet(texts)
    BY <1>1, NoCallType
  <2>2. e \in ActSet(texts) /\ e.pending = <<>> /\ e.phase = "scan"
    BY <1>10, <1>15 DEF Pushed
  <2> QED BY <1>16, <2>1, <2>2 DEF ActSet
<1>18. Layered(b) /\ Hidden(b)
  BY <1>15, <1>17, SameFrames DEF Pushed
<1>19. Sound(macros, b) /\ b.phase \in Expanding
  BY <1>17, <1>18, ScanSound
<1>20. Become(b)
  BY <1>7, <1>9, <1>14, <1>16
<1> QED BY <1>1, <1>17, <1>19, <1>20, BecomeKeeps

-----------------------------------------------------------------------------
(* The strings # makes hold the spellings of other tokens: the texts that  *)
(* are about grow with them.                                               *)
Quotes(texts) == [sym : Spellings, text : texts, space : BOOLEAN]

LEMMA SeqWider ==
  ASSUME NEW S, NEW T, S \subseteq T
  PROVE  Seq(S) \subseteq Seq(T)
<1>1. ASSUME NEW s \in Seq(S)
      PROVE  s \in Seq(T)
  <2>1. \A i \in 1 .. Len(s) : s[i] \in T
    OBVIOUS
  <2>2. Len(s) \in Nat /\ s = [i \in 1 .. Len(s) |-> s[i]]
    OBVIOUS
  <2> QED BY <2>1, <2>2
<1> QED BY <1>1

(* A state of its type is so for more texts.                               *)
LEMMA TypesWider ==
  ASSUME NEW texts, NEW more, texts \subseteq more, Types(texts)
  PROVE  Types(more)
<1>1. TokenSet(texts) \subseteq TokenSet(more)
  BY DEF TokenSet
<1>2. PICK toks : toks = Seq(TokenSet(texts))
  OBVIOUS
<1>3. PICK wider : wider = Seq(TokenSet(more))
  OBVIOUS
<1>4. toks \subseteq wider /\ Seq(toks) \subseteq Seq(wider)
  BY <1>1, <1>2, <1>3, SeqWider
<1>5. Definable(TokenSet(texts)) \subseteq Definable(TokenSet(more))
  BY <1>2, <1>3, <1>4 DEF Definable
<1>6. FrameSet(texts) \subseteq FrameSet(more)
  BY <1>2, <1>3, <1>4 DEF FrameSet
<1>7. PendingSet(texts) \subseteq PendingSet(more)
  BY <1>1 DEF PendingSet
<1>8. CallSet(texts) \subseteq CallSet(more)
  BY <1>1, <1>2, <1>3, <1>4, <1>5 DEF CallSet
<1>9. /\ Seq(FrameSet(texts)) \subseteq Seq(FrameSet(more))
      /\ Seq(PendingSet(texts)) \subseteq Seq(PendingSet(more))
  BY <1>6, <1>7, SeqWider
<1>10. ActSet(texts) \subseteq ActSet(more)
  BY <1>2, <1>3, <1>4, <1>8, <1>9 DEF ActSet
<1>11. Seq(ActSet(texts)) \subseteq Seq(ActSet(more))
  BY <1>10, SeqWider
<1>12. macros \in [Names -> Definable(TokenSet(more))]
  BY <1>5 DEF Types
<1> QED BY <1>11, <1>12 DEF Types

(* The string of an argument: the one action that makes a new text.        *)
LEMMA StringizeKeeps ==
  ASSUME NEW texts, Types(texts), Nested, Stringize
  PROVE  \E more : Types(more)' /\ Nested'
<1> DEFINE more == texts \cup Seq(Quotes(texts))
<1>1. Types(more)
  BY TypesWider
<1>2. PICK p \in Params(Self, Following(Self)) :
        Become(Substituted(Self,
          Append(Self.call.os, Stringized(Self.call.args[p], Self.call.name)),
            2))
  BY DEF Stringize
<1>3. Self.phase = "substitute" /\ macros' = macros /\ status' = "running"
  BY DEF Stringize, At
<1>4. PICK toks \in Seq(TokenSet(texts)) : toks = Self.call.args[p]
  BY <1>3, ArgumentType
<1>5. PICK text :
        text = [i \in DOMAIN toks |-> [sym |-> toks[i].sym,
                                                    text |-> toks[i].text,
                                       space |-> i > 1 /\ toks[i].space]]
  OBVIOUS
<1>6. text \in Seq(Quotes(texts))
  <2>1. ASSUME NEW i \in DOMAIN toks
        PROVE  [sym |-> toks[i].sym, text |-> toks[i].text,
                space |-> i > 1 /\ toks[i].space] \in Quotes(texts)
    <3>1. PICK t \in TokenSet(texts) : t = toks[i]
      OBVIOUS
    <3>2. t.sym \in Spellings /\ t.text \in texts
      BY DEF TokenSet
    <3> QED BY <3>1, <3>2 DEF Quotes
  <2>2. DOMAIN toks = 1 .. Len(toks) /\ Len(toks) \in Nat
    OBVIOUS
  <2> QED BY <1>5, <2>1, <2>2
<1>7. text \in more
  BY <1>6
<1> HIDE DEF more
<1>8. "string" \in Spellings
  BY DEF Spellings
<1>9. Self.call.name \in TokenSet(more) /\ Self.call.os \in Seq(TokenSet(more))
  BY <1>1, <1>3, ElementType
<1>10. Stringized(toks, Self.call.name) \in TokenSet(more)
  BY <1>5, <1>7, <1>8, <1>9, SynthesizedType DEF Stringized
<1>11. Append(Self.call.os, Stringized(toks,
         Self.call.name)) \in Seq(TokenSet(more))
  BY <1>9, <1>10, AppendType
<1>12. Types(more)' /\ Nested'
  BY <1>1, <1>2, <1>3, <1>4, <1>11, SubstituteStep
<1> QED BY <1>12

-----------------------------------------------------------------------------
(* An activation of the tokens of an argument, or of a line.               *)
LEMMA BegunType ==
  ASSUME NEW texts, <<>> \in texts, NEW ms, NEW toks \in Seq(TokenSet(texts)),
         NEW b, b = PushTokens(Activation(<<>>), "argument", toks)
  PROVE  b \in ActSet(texts) /\ Sound(ms, b) /\ b.phase \in Expanding
<1>1. PICK fs \in Seq(FrameSet(texts)) :
        /\ b = [frames |-> fs, pending |-> <<>>, out |-> <<>>, phase |-> "scan",
                call |-> NoCall]
        /\ \A k \in DOMAIN fs : fs[k].of = "argument"
  <2>1. CASE toks = <<>>
    <3>1. b = [frames |-> <<>>, pending |-> <<>>, out |-> <<>>,
               phase |-> "scan",
               call |-> NoCall]
      BY <2>1 DEF PushTokens, Activation
    <3>2. PICK none \in Seq(FrameSet(texts)) : none = <<>>
      BY NoneType
    <3>3. DOMAIN none = {}
      BY <3>2
    <3> QED BY <3>1, <3>2, <3>3
  <2>2. CASE toks # <<>>
    <3>1. PICK f : f = [of |-> "argument", toks |-> toks, delta |-> 0]
      OBVIOUS
    <3>2. f \in FrameSet(texts) /\ f.of = "argument"
      BY <3>1 DEF FrameSet
    <3>3. PICK fs \in Seq(FrameSet(texts)) : fs = <<f>>
      BY <3>2, <<f>> \in Seq(FrameSet(texts))
    <3>4. DOMAIN fs = {1} /\ fs[1] = f
      BY <3>3
    <3>5. Append(<<>>, f) = fs
      BY <3>3
    <3>6. b = [frames |-> fs, pending |-> <<>>, out |-> <<>>, phase |-> "scan",
               call |-> NoCall]
      BY <2>2, <3>1, <3>5 DEF PushTokens, Activation
    <3> QED BY <3>2, <3>4, <3>6
  <2> QED BY <2>1, <2>2
<1>2. /\ b \in ActSet(texts) /\ b.frames = fs /\ b.pending = <<>>
      /\ b.phase = "scan"
  <2>1. PICK none : none = <<>> /\ none \in Seq(PendingSet(texts))
                    /\ none \in Seq(TokenSet(texts))
    BY NoneType
  <2>2. NoCall \in CallSet(texts)
    BY NoCallType
  <2>3. b = [frames |-> fs, pending |-> none, out |-> none, phase |-> "scan",
             call |-> NoCall]
    BY <1>1, <2>1
  <2>4. none \in Seq(PendingSet(texts)) /\ none \in Seq(TokenSet(texts))
    BY <2>1
  <2>5. b \in ActSet(texts)
    BY <2>2, <2>3, <2>4 DEF ActSet, Phases
  <2>6. b.frames = fs /\ b.pending = none /\ b.phase = "scan"
    BY <2>3
  <2> QED BY <2>1, <2>5, <2>6
<1>3. Bare(b)
  BY <1>1, <1>2, ExpansionAssumption DEF Bare, Replaces
<1>4. Layered(b) /\ Hidden(b)
  <2>1. Layered(b)
    BY <1>3 DEF Layered, Bare
  <2>2. Hidden(b)
    <3>1. ASSUME NEW f \in DOMAIN b.frames,
                 NEW g \in 1 .. f PROVE g \in DOMAIN b.frames
      BY <1>2
    <3> QED BY <1>3, <3>1 DEF Hidden, HidesBelow, Bare
  <2> QED BY <2>1, <2>2
<1> QED BY <1>2, <1>4, ScanSound

(* expand_token_list is called: the caller waits below.                    *)
LEMMA BeginKeeps ==
  ASSUME NEW texts, Types(texts), Nested,
         NEW stack \in Seq(ActSet(texts)), Len(stack) = Len(acts),
         \A k \in 1 .. Len(acts) - 1 : stack[k] = acts[k],
         NEW c, c = stack[Len(acts)], Sound(macros, c), Waits(macros, c),
         Len(acts) > 1 => c.phase \in Expanding,
         NEW b \in ActSet(texts), Sound(macros, b), b.phase \in Expanding,
         acts' = Append(stack, b), macros' = macros, status' = "running"
  PROVE  Types(texts)' /\ Nested'
<1>1. PICK n \in Nat \ {0} : n = Len(acts)
  BY DEF Types
<1>2. /\ acts' \in Seq(ActSet(texts)) /\ Len(acts') = n + 1
      /\ acts'[n + 1] = b /\ acts'[n] = c
      /\ \A k \in 1 .. n - 1 : acts'[k] = acts[k]
  BY <1>1, AppendType
<1>3. Types(texts)'
  BY <1>1, <1>2 DEF Types
<1>4. ASSUME NEW k \in 1 .. n + 1
      PROVE  Sound(macros', acts'[k])
  <2>1. k = n + 1 \/ k = n \/ (k \in 1 .. n - 1 /\ k \in 1 .. Len(acts))
    BY <1>1
  <2> QED BY <1>1, <1>2, <2>1 DEF Nested
<1>5. ASSUME NEW k \in 2 .. n + 1
      PROVE  acts'[k].phase \in Expanding
  <2>1. k = n + 1 \/ (k = n /\ Len(acts) > 1)
          \/ (k \in 1 .. n - 1 /\ k \in 2 .. Len(acts))
    BY <1>1
  <2> QED BY <1>1, <1>2, <2>1 DEF Nested
<1>6. ASSUME NEW k \in 1 .. n
      PROVE  Waits(macros', acts'[k])
  <2>1. k = n \/ (k \in 1 .. n - 1 /\ k \in 1 .. Len(acts) - 1)
    BY <1>1
  <2>2. CASE k = n
    BY <1>2, <2>2
  <2>3. CASE k \in 1 .. n - 1 /\ k \in 1 .. Len(acts) - 1
    <3>1. Waits(macros, acts[k]) /\ acts'[k] = acts[k]
      BY <1>2, <2>3 DEF Nested
    <3> QED BY <3>1
  <2> QED BY <2>1, <2>2, <2>3
<1>7. 1 .. Len(acts') = 1 .. n + 1 /\ 2 .. Len(acts') = 2 .. n + 1
      /\ 1 .. Len(acts') - 1 = 1 .. n
  BY <1>2
<1> QED BY <1>3, <1>4, <1>5, <1>6, <1>7 DEF Nested

(* It returns: the caller is the running activation again.                 *)
LEMMA EndKeeps ==
  ASSUME NEW texts, Types(texts), Nested, Len(acts) > 1,
         NEW b \in ActSet(texts), Sound(macros, b),
         Len(acts) - 1 > 1 => b.phase \in Expanding,
         acts' = [SubSeq(acts, 1, Len(acts) - 1) EXCEPT ![Len(acts) - 1] = b],
         macros' = macros, status' = "running"
  PROVE  Types(texts)' /\ Nested'
<1>1. PICK n \in Nat \ {0} : n = Len(acts) - 1
  BY DEF Types
<1>2. acts \in Seq(ActSet(texts)) /\ Len(acts) = n + 1
  BY <1>1 DEF Types
<1>3. PICK s \in Seq(ActSet(texts)) : s = SubSeq(acts, 1, n)
  BY <1>1, <1>2, FrontType
<1>4. Len(s) = n /\ \A k \in 1 .. n : s[k] = acts[k]
  BY <1>2, <1>3
<1>5. /\ acts' \in Seq(ActSet(texts)) /\ Len(acts') = n
      /\ acts'[n] = b
      /\ \A k \in 1 .. n - 1 : acts'[k] = acts[k]
  <2>1. PICK t : t = [s EXCEPT ![n] = b]
    OBVIOUS
  <2>2. /\ t \in Seq(ActSet(texts)) /\ Len(t) = n /\ t[n] = b
        /\ \A k \in 1 .. n - 1 : t[k] = s[k]
    BY <1>4, <2>1
  <2>3. acts' = t
    BY <1>1, <1>3, <2>1
  <2>4. \A k \in 1 .. n - 1 : k \in 1 .. n
    OBVIOUS
  <2> QED BY <1>4, <2>2, <2>3, <2>4
<1>6. Types(texts)'
  BY <1>1, <1>5 DEF Types
<1>7. ASSUME NEW k \in 1 .. n
      PROVE  Sound(macros', acts'[k])
  <2>1. k = n \/ (k \in 1 .. n - 1 /\ k \in 1 .. Len(acts))
    BY <1>2
  <2> QED BY <1>5, <2>1 DEF Nested
<1>8. ASSUME NEW k \in 2 .. n
      PROVE  acts'[k].phase \in Expanding
  <2>1. (k = n /\ Len(acts) - 1 > 1)
          \/ (k \in 1 .. n - 1 /\ k \in 2 .. Len(acts))
    BY <1>2
  <2> QED BY <1>5, <2>1 DEF Nested
<1>9. ASSUME NEW k \in 1 .. n - 1
      PROVE  Waits(macros', acts'[k])
  <2>1. k \in 1 .. Len(acts) - 1
    BY <1>2
  <2>2. Waits(macros, acts[k]) /\ acts'[k] = acts[k]
    BY <1>5, <2>1 DEF Nested
  <2> QED BY <2>2
<1> QED BY <1>5, <1>6, <1>7, <1>8, <1>9 DEF Nested

(* The full expansion of an argument starts ...                            *)
LEMMA ExpandArgumentKeeps ==
  ASSUME NEW texts, Types(texts), Nested, ExpandArgument
  PROVE  Types(texts)' /\ Nested'
<1>1. /\ Self.phase = "substitute" /\ Replacing(Self) /\ macros' = macros
      /\ status' = "running"
  BY DEF ExpandArgument, At
<1>2. PICK p \in Params(Self, Element(Self)) :
        acts' = Append(acts, PushTokens(Activation(<<>>), "argument",
          Self.call.args[p]))
  BY DEF ExpandArgument
<1>3. PICK toks \in Seq(TokenSet(texts)) : toks = Self.call.args[p]
  BY <1>1, ArgumentType
<1>4. PICK b : b = PushTokens(Activation(<<>>), "argument", toks)
  OBVIOUS
<1>5. b \in ActSet(texts) /\ Sound(macros, b) /\ b.phase \in Expanding
  BY <1>3, <1>4, BegunType DEF Types
<1>6. acts' = Append(acts, b)
  BY <1>2, <1>3, <1>4
<1>7. /\ acts \in Seq(ActSet(texts)) /\ Sound(macros, Self)
           /\ Self = acts[Len(acts)]
  BY Reading DEF Types, Self
<1>8. Waits(macros, Self) /\ Self.phase \in Expanding
  BY <1>1 DEF Waits, Replacing, Body, Macro, Expanding
<1> QED BY <1>1, <1>5, <1>6, <1>7, <1>8, BeginKeeps

(* (what the caller was doing has not changed) ...                         *)
LEMMA CallerSound ==
  ASSUME NEW texts, Types(texts), Nested, ~Driver,
         NEW caller, caller = acts[Len(acts) - 1]
  PROVE  /\ Len(acts) > 1 /\ caller \in ActSet(texts) /\ Sound(macros, caller)
         /\ Waits(macros, caller)
         /\ Len(acts) - 1 > 1 => caller.phase \in Expanding
<1>1. Len(acts) \in Nat /\ Len(acts) > 1
  <2>1. Len(acts) \in Nat \ {0}
    BY SelfType
  <2>2. Len(acts) # 1
    BY DEF Driver
  <2> QED BY <2>1, <2>2
<1>2. Len(acts) - 1 \in 1 .. Len(acts) - 1 /\ Len(acts) - 1 \in 1 .. Len(acts)
  BY <1>1
<1>3. Len(acts) - 1 > 1 => Len(acts) - 1 \in 2 .. Len(acts)
  BY <1>1
<1>4. caller \in ActSet(texts)
  BY <1>2 DEF Types
<1> QED BY <1>1, <1>2, <1>3, <1>4 DEF Nested

(* ... and ends; its tokens join os.                                       *)
LEMMA EndArgumentKeeps ==
  ASSUME NEW texts, Types(texts), Nested, EndArgument
  PROVE  Types(texts)' /\ Nested'
<1>1. PICK caller : caller = acts[Len(acts) - 1]
  OBVIOUS
<1>2. PICK expanded :
        expanded = [i \in DOMAIN Self.out |->
                      [Self.out[i] EXCEPT
                         !.space = IF i = 1 THEN Element(caller).space ELSE @]]
  OBVIOUS
<1>3. /\ ~Driver /\ caller.phase = "substitute" /\ macros' = macros
           /\ status' = "running"
      /\ acts' = [SubSeq(acts, 1, Len(acts) - 1) EXCEPT
                    ![Len(acts) - 1] = Substituted(caller, caller.call.os
                      \o expanded, 1)]
  BY <1>1, <1>2 DEF EndArgument, At
<1>4. /\ Len(acts) > 1 /\ caller \in ActSet(texts) /\ Sound(macros, caller)
      /\ Waits(macros, caller)
      /\ Len(acts) - 1 > 1 => caller.phase \in Expanding
  BY <1>1, <1>3, CallerSound
<1>5. Element(caller) \in TokenSet(texts)
  <2>1. caller.call.next \in DOMAIN macros[caller.call.name.sym].body
    BY <1>3, <1>4 DEF Waits
  <2>2. caller.call.name.sym \in Names
    BY <1>3, <1>4 DEF Sound, Called
  <2>3. macros[caller.call.name.sym].body \in Seq(TokenSet(texts))
    BY <2>2, MacroType
  <2> QED BY <2>1, <2>3 DEF Element, Body, Macro
<1>6. expanded \in Seq(TokenSet(texts))
  <2>1. PICK out \in Seq(TokenSet(texts)) : out = Self.out
    BY Reading DEF ActSet
  <2>2. ASSUME NEW i \in DOMAIN out
        PROVE  [out[i] EXCEPT !.space = IF i
                    = 1 THEN Element(caller).space ELSE @]
                 \in TokenSet(texts)
    <3>1. PICK t \in TokenSet(texts) : t = out[i]
      OBVIOUS
    <3>2. PICK sp \in BOOLEAN :
            sp = IF i = 1 THEN Element(caller).space ELSE t.space
      BY <1>5 DEF TokenSet
    <3>3. [t EXCEPT !.space = sp] \in TokenSet(texts)
      BY DEF TokenSet
    <3> QED BY <3>1, <3>2, <3>3
  <2>3. DOMAIN out = 1 .. Len(out) /\ Len(out) \in Nat
    OBVIOUS
  <2> QED BY <1>2, <2>1, <2>2, <2>3
<1>7. PICK os \in Seq(TokenSet(texts)) : os = caller.call.os \o expanded
  <2>1. caller.call.os \in Seq(TokenSet(texts))
    BY <1>4 DEF ActSet, CallSet
  <2> QED BY <1>6, <2>1, ConcatType
<1>8. PICK b : b = Substituted(caller, os, 1)
  OBVIOUS
<1>9. b \in ActSet(texts) /\ Sound(macros, b) /\ b.phase \in Expanding
  BY <1>3, <1>4, <1>8, SubstitutedSound
<1>10. acts' = [SubSeq(acts, 1, Len(acts) - 1) EXCEPT ![Len(acts) - 1] = b]
  BY <1>3, <1>7, <1>8
<1> QED BY <1>3, <1>4, <1>9, <1>10, EndKeeps

-----------------------------------------------------------------------------
(* The driver reads a directive: it is alone, and no replacement is being  *)
(* scanned.                                                                *)
LEMMA LoneKeeps ==
  ASSUME NEW texts, Types(texts), Len(acts) = 1, NEW b \in ActSet(texts),
         Become(b),
         Layered(b), Hidden(b), Bare(b), b.pending = <<>>,
           b.phase \notin Invoking,
         macros' \in [Names -> Definable(TokenSet(texts))],
         status' \in {"running", "ok", "oom"}
  PROVE  Types(texts)' /\ Nested'
<1>1. acts \in Seq(ActSet(texts)) /\ Len(acts) > 0
  BY DEF Types
<1>2. acts' \in Seq(ActSet(texts)) /\ Len(acts') = 1 /\ acts'[1] = b
  BY <1>1, BecomeStep
<1>3. Types(texts)'
  BY <1>2 DEF Types
<1>4. Sound(macros', b)
  BY DEF Sound, PushedBack, Called, InDirective, Invoking
<1>5. \A k \in 1 .. Len(acts') : k = 1
  BY <1>2
<1>6. ~(\E k \in 2 .. Len(acts') : TRUE)
        /\ ~(\E k \in 1 .. Len(acts') - 1 : TRUE)
  BY <1>2
<1> QED BY <1>2, <1>3, <1>4, <1>5, <1>6 DEF Nested

(* What a read within a directive may rely on, ...                         *)
LEMMA DirectiveRead ==
  ASSUME NEW texts, Types(texts), Nested, Self.phase \notin Expanding
  PROVE  /\ Len(acts) = 1 /\ <<>> \in texts
         /\ Self \in ActSet(texts) /\ Self.call \in CallSet(texts)
         /\ Self.pending = <<>> /\ Layered(Self) /\ Hidden(Self) /\ Bare(Self)
         /\ Advance(Self) \in ActSet(texts) /\ Advance(Self).pending = <<>>
         /\ Advance(Self).phase = Self.phase /\ Advance(Self).call = Self.call
         /\ Layered(Advance(Self)) /\ Hidden(Advance(Self))
              /\ Bare(Advance(Self))
         /\ Token(Self) \in TokenSet(texts)
<1>1. <<>> \in texts /\ Self \in ActSet(texts) /\ Sound(macros, Self)
        /\ Len(acts) = 1
  BY Reading DEF Types
<1>2. /\ Layered(Self) /\ Hidden(Self) /\ Bare(Self) /\ Self.pending = <<>>
      /\ Self.call \in CallSet(texts)
  <2>1. Self.phase # "scan"
    BY DEF Expanding
  <2> QED BY <1>1, <2>1 DEF Sound, InDirective, PushedBack, ActSet
<1>3. Advance(Self) \in ActSet(texts) /\ Lower(Advance(Self), Self)
  BY <1>1, AdvanceType
<1>4. Layered(Advance(Self)) /\ Hidden(Advance(Self)) /\ Bare(Advance(Self))
  BY <1>1, <1>2, <1>3, LowerKeeps
<1> QED BY <1>1, <1>2, <1>3, <1>4, Reading

(* ... and a step of one.                                                  *)
LEMMA DirectiveStep ==
  ASSUME NEW texts, Types(texts), Nested, Self.phase \notin Expanding,
         NEW b \in ActSet(texts), Become(b),
         b.frames = Self.frames \/ b.frames = Advance(Self).frames,
         b.pending = <<>>, b.phase \notin Invoking,
         macros' \in [Names -> Definable(TokenSet(texts))],
         status' \in {"running", "ok", "oom"}
  PROVE  Types(texts)' /\ Nested'
<1>1. Layered(b) /\ Hidden(b) /\ Bare(b) /\ Len(acts) = 1
  <2>1. CASE b.frames = Self.frames
    BY <2>1, DirectiveRead, SameFrames
  <2>2. CASE b.frames = Advance(Self).frames
    BY <2>2, DirectiveRead, SameFrames
  <2> QED BY <2>1, <2>2, DirectiveRead
<1> QED BY <1>1, LoneKeeps

(* The activation in another phase, with another or no call.               *)
Put(a, p, c) == [[a EXCEPT !.phase = p] EXCEPT !.call = c]

LEMMA PutType ==
  ASSUME NEW texts, NEW a \in ActSet(texts), NEW p \in Phases,
         NEW c \in CallSet(texts)
  PROVE  /\ Put(a, p, c) \in ActSet(texts) /\ Put(a, p, c).frames = a.frames
         /\ Put(a, p, c).pending = a.pending /\ Put(a, p, c).phase = p
         /\ Put(a, p, c).call = c
BY DEF Put, ActSet

LEMMA PutStep ==
  ASSUME NEW texts, Types(texts), Nested, Self.phase \notin Expanding,
         NEW p \in Phases \ Invoking, NEW c \in CallSet(texts),
         \/ Become(Put(Advance(Self), p, c))
         \/ Become(Put(Self, p, c)),
         macros' = macros, status' = "running"
  PROVE  Types(texts)' /\ Nested'
<1>1. /\ Self \in ActSet(texts) /\ Advance(Self) \in ActSet(texts)
      /\ Self.pending = <<>> /\ Advance(Self).pending = <<>>
  BY DirectiveRead
<1>2. PICK b : /\ b = Put(Advance(Self), p, c) \/ b = Put(Self, p, c)
               /\ Become(b)
  OBVIOUS
<1>3. /\ b \in ActSet(texts) /\ b.phase = p /\ b.pending = <<>>
      /\ b.frames = Self.frames \/ b.frames = Advance(Self).frames
  BY <1>1, <1>2, PutType
<1>4. macros' \in [Names -> Definable(TokenSet(texts))]
  BY DEF Types
<1> QED BY <1>2, <1>3, <1>4, DirectiveStep

LEMMA GotoType ==
  ASSUME NEW texts, NEW a \in ActSet(texts), NEW p \in Phases
  PROVE  /\ Goto(a, p) \in ActSet(texts) /\ Goto(a, p).frames = a.frames
         /\ Goto(a, p).pending = a.pending /\ Goto(a, p).phase = p
         /\ Goto(a, p).call = a.call
BY DEF Goto, ActSet

Forgets(a, p) == [Goto(a, p) EXCEPT !.call = NoCall]

LEMMA ForgetType ==
  ASSUME NEW texts, <<>> \in texts, NEW a \in ActSet(texts), NEW p \in Phases
  PROVE  /\ Forgets(a, p) \in ActSet(texts) /\ Forgets(a, p).frames = a.frames
         /\ Forgets(a, p).pending = a.pending /\ Forgets(a, p).phase = p
<1>1. NoCall \in CallSet(texts)
  BY NoCallType
<1>2. PICK g \in ActSet(texts) :
        /\ g = Goto(a, p) /\ g.frames = a.frames /\ g.pending = a.pending
        /\ g.phase = p
  BY GotoType
<1>3. Forgets(a, p) = [g EXCEPT !.call = NoCall]
  BY <1>2 DEF Forgets
<1> QED BY <1>1, <1>2, <1>3 DEF ActSet

(* The end of a directive, and what comes before it.                       *)
LEMMA EndOrSkipType ==
  ASSUME NEW texts, Types(texts), Nested, Self.phase \notin Expanding
  PROVE  /\ EndOrSkip(Self) \in ActSet(texts)
         /\ EndOrSkip(Self).frames = Advance(Self).frames
         /\ EndOrSkip(Self).pending = <<>>
         /\ EndOrSkip(Self).phase \notin Invoking
<1>1. PICK p \in {"scan", "skip"} : EndOrSkip(Self) = Forgets(Advance(Self), p)
  BY DEF EndOrSkip, Forgets
<1>2. p \in Phases /\ p \notin Invoking
  BY DEF Phases, Invoking
<1>3. Advance(Self) \in ActSet(texts) /\ Advance(Self).pending = <<>>
        /\ <<>> \in texts
  BY DirectiveRead
<1> QED BY <1>1, <1>2, <1>3, ForgetType

(* A directive that is over but for the rest of its line; #undef.          *)
LEMMA LineEndKeeps ==
  ASSUME NEW texts, Types(texts), Nested, SkipToLineEnd \/ Undef
         \/ DefineWithoutName
  PROVE  Types(texts)' /\ Nested'
<1>1. Self.phase \notin Expanding /\ status' = "running"
        /\ Become(EndOrSkip(Self))
  BY DEF SkipToLineEnd, Undef, DefineWithoutName, At, Expanding
<1>2. macros' \in [Names -> Definable(TokenSet(texts))]
  <2>1. macros \in [Names -> Definable(TokenSet(texts))]
    BY DEF Types
  <2>2. CASE Undef
    <3>1. NoMacro \in Definable(TokenSet(texts))
      BY NoMacroType
    <3> QED BY <2>1, <2>2, <3>1 DEF Undef
  <2> QED BY <2>1, <2>2 DEF SkipToLineEnd, DefineWithoutName
<1>3. PICK b : b = EndOrSkip(Self)
  OBVIOUS
<1>4. /\ b \in ActSet(texts) /\ b.frames = Advance(Self).frames
           /\ b.pending = <<>>
      /\ b.phase \notin Invoking /\ Become(b)
  BY <1>1, <1>3, EndOrSkipType
<1> QED BY <1>1, <1>2, <1>4, DirectiveStep

(* The name of the directive chooses its handler.                          *)
LEMMA DirectiveNameKeeps ==
  ASSUME NEW texts, Types(texts), Nested, DirectiveName
  PROVE  Types(texts)' /\ Nested'
<1> DEFINE r == Advance(Self)
           t == Token(Self)
           p == HandlerOf(t)
           u == [t EXCEPT !.line = @ - Self.frames[Source(Self)].delta]
<1>1. Self.phase \notin Expanding /\ macros' = macros /\ status' = "running"
  BY DEF DirectiveName, At, Expanding
<1>2. /\ Self \in ActSet(texts) /\ r \in ActSet(texts)
           /\ r.call \in CallSet(texts)
      /\ t \in TokenSet(texts) /\ Self.pending = <<>>
  BY <1>1, DirectiveRead
<1>3. p \in Phases \ Invoking
  BY DEF HandlerOf, LineEnd, Phases, Invoking
<1>4. CASE t.sym # "line"
  <2>1. Become(Goto(r, p))
    BY <1>4 DEF DirectiveName
  <2> HIDE DEF r, t, p
  <2>2. Goto(r, p) = Put(r, p, r.call)
    BY <1>2 DEF Goto, Put, ActSet
  <2> QED BY <1>1, <1>2, <1>3, <2>1, <2>2, PutStep DEF r
<1>5. CASE t.sym = "line"
  <2>1. Become([Goto(r, p) EXCEPT !.call.name = u])
    BY <1>5 DEF DirectiveName
  <2>2. u \in TokenSet(texts)
    <3>1. Live(Self) # {}
      <4>1. Live(Self) = {} => t = Eof
        BY <1>2 DEF Token
      <4>2. Eof.sym = "eof"
        BY DEF Eof
      <4> HIDE DEF t
      <4> QED BY <1>5, <4>1, <4>2
    <3>2. Source(Self) \in DOMAIN Self.frames
            /\ Self.frames \in Seq(FrameSet(texts))
      BY <1>2, <3>1, SourceIsLast DEF Live, ActSet
    <3>3. Self.frames[Source(Self)].delta \in Int
      <4>1. PICK f \in FrameSet(texts) : f = Self.frames[Source(Self)]
        BY <3>2
      <4> QED BY <4>1 DEF FrameSet
    <3>4. PICK n \in Int : n = t.line - Self.frames[Source(Self)].delta
      BY <1>2, <3>3 DEF TokenSet
    <3> HIDE DEF t
    <3>5. u = [t EXCEPT !.line = n]
      BY <3>4
    <3> QED BY <1>2, <3>5 DEF TokenSet
  <2> HIDE DEF r, t, p, u
  <2>3. PICK c : c = [r.call EXCEPT !.name = u]
    OBVIOUS
  <2>4. c \in CallSet(texts)
    BY <1>2, <2>2, <2>3 DEF CallSet
  <2>5. [Goto(r, p) EXCEPT !.call.name = u] = Put(r, p, c)
    BY <1>2, <2>3 DEF Goto, Put, ActSet
  <2> QED BY <1>1, <1>3, <2>1, <2>4, <2>5, PutStep DEF r
<1> QED BY <1>4, <1>5

(* #define: the name, the form, the replacement list, ...                  *)
LEMMA DefineKeeps ==
  ASSUME NEW texts, Types(texts), Nested,
         DefineName \/ DefineFunction \/ DefineObject \/ CollectReplacement
  PROVE  Types(texts)' /\ Nested'
<1> DEFINE r == Advance(Self)
           t == Token(Self)
<1>1. Self.phase \notin Expanding /\ macros' = macros /\ status' = "running"
  BY DEF DefineName, DefineFunction, DefineObject, CollectReplacement, At,
     Expanding
<1>2. /\ Self \in ActSet(texts) /\ Self.call \in CallSet(texts)
      /\ r \in ActSet(texts) /\ r.call = Self.call /\ r.call \in CallSet(texts)
      /\ r.phase = Self.phase /\ t \in TokenSet(texts)
  BY <1>1, DirectiveRead
<1>3. r.call.def \in Definable(TokenSet(texts))
  BY <1>2 DEF CallSet
<1>4. CASE DefineName
  <2>1. Become([Goto(r, "form") EXCEPT !.call.name = t, !.call.def.kind
                = "object"])
    BY <1>4 DEF DefineName
  <2> HIDE DEF r, t
  <2>2. PICK d : d = [r.call.def EXCEPT !.kind = "object"]
    OBVIOUS
  <2>3. d \in Definable(TokenSet(texts))
    BY <1>3, <2>2 DEF Definable
  <2>4. PICK c : c = [[r.call EXCEPT !.name = t] EXCEPT !.def = d]
    OBVIOUS
  <2>5. c \in CallSet(texts)
    BY <1>2, <2>3, <2>4 DEF CallSet
  <2>6. [Goto(r, "form") EXCEPT !.call.name = t, !.call.def.kind = "object"]
          = Put(r, "form", c)
    BY <1>2, <2>2, <2>4 DEF Goto, Put, ActSet, CallSet
  <2>7. "form" \in Phases \ Invoking
    BY DEF Phases, Invoking
  <2> QED BY <1>1, <2>1, <2>5, <2>6, <2>7, PutStep DEF r
<1>5. CASE DefineFunction
  <2>1. Become([Goto(r, "parameters") EXCEPT !.call.def.kind = "function"])
    BY <1>5 DEF DefineFunction
  <2> HIDE DEF r, t
  <2>2. PICK d : d = [r.call.def EXCEPT !.kind = "function"]
    OBVIOUS
  <2>3. d \in Definable(TokenSet(texts))
    BY <1>3, <2>2 DEF Definable
  <2>4. PICK c : c = [r.call EXCEPT !.def = d]
    OBVIOUS
  <2>5. c \in CallSet(texts)
    BY <1>2, <2>3, <2>4 DEF CallSet
  <2>6. [Goto(r, "parameters") EXCEPT !.call.def.kind = "function"] = Put(r,
          "parameters", c)
    BY <1>2, <2>2, <2>4 DEF Goto, Put, ActSet, CallSet
  <2>7. "parameters" \in Phases \ Invoking
    BY DEF Phases, Invoking
  <2> QED BY <1>1, <2>1, <2>5, <2>6, <2>7, PutStep DEF r
<1>6. CASE DefineObject
  <2>1. Become(Goto(Self, "replacement"))
    BY <1>6 DEF DefineObject
  <2>2. Goto(Self, "replacement") = Put(Self, "replacement", Self.call)
    <3>1. PICK a \in ActSet(texts) : a = Self
      BY <1>2
    <3>2. Goto(a, "replacement") = Put(a, "replacement", a.call)
      BY DEF Goto, Put, ActSet
    <3> QED BY <3>1, <3>2
  <2>3. "replacement" \in Phases \ Invoking
    BY DEF Phases, Invoking
  <2> QED BY <1>1, <1>2, <2>1, <2>2, <2>3, PutStep
<1>7. CASE CollectReplacement
  <2>1. PICK u : u = [t EXCEPT !.space = @ /\ r.call.def.body # <<>>]
    OBVIOUS
  <2>2. Become([r EXCEPT !.call.def.body = Append(@, u)])
          /\ r.phase = "replacement"
    BY <1>2, <1>7, <2>1 DEF CollectReplacement, At
  <2> HIDE DEF r, t
  <2>3. u \in TokenSet(texts)
    BY <1>2, <2>1 DEF TokenSet
  <2>4. PICK body \in Seq(TokenSet(texts)) : body = Append(r.call.def.body, u)
    BY <1>3, <2>3, AppendType DEF Definable
  <2>5. PICK d : d = [r.call.def EXCEPT !.body = body]
    OBVIOUS
  <2>6. d \in Definable(TokenSet(texts))
    BY <1>3, <2>4, <2>5 DEF Definable
  <2>7. PICK c : c = [r.call EXCEPT !.def = d]
    OBVIOUS
  <2>8. c \in CallSet(texts)
    BY <1>2, <2>6, <2>7 DEF CallSet
  <2>9. [r EXCEPT !.call.def.body = Append(@, u)] = Put(r, "replacement", c)
    BY <1>2, <2>2, <2>4, <2>5, <2>7 DEF Put, ActSet, CallSet
  <2>10. "replacement" \in Phases \ Invoking
    BY DEF Phases, Invoking
  <2> QED BY <1>1, <2>2, <2>8, <2>9, <2>10, PutStep DEF r
<1> QED BY <1>4, <1>5, <1>6, <1>7

(* ... the parameters, ...                                                 *)
LEMMA ParametersKeep ==
  ASSUME NEW texts, Types(texts), Nested, Parameter \/ AfterParameter
  PROVE  Types(texts)' /\ Nested'
<1> DEFINE r == Advance(Self)
           t == Token(Self)
<1>1. Self.phase \notin Expanding /\ macros' = macros /\ status' = "running"
  BY DEF Parameter, AfterParameter, Expanding
<1>2. /\ r \in ActSet(texts) /\ r.call = Self.call /\ r.call \in CallSet(texts)
      /\ t \in TokenSet(texts)
  BY <1>1, DirectiveRead
<1>3. r.call.def \in Definable(TokenSet(texts))
  BY <1>2 DEF CallSet
<1>4. ASSUME NEW p \in Phases \ Invoking, Become(Goto(r, p))
      PROVE  Types(texts)' /\ Nested'
  <2> HIDE DEF r, t
  <2>1. Goto(r, p) = Put(r, p, r.call)
    BY <1>2 DEF Goto, Put, ActSet
  <2> QED BY <1>1, <1>2, <1>4, <2>1, PutStep DEF r
<1>5. ASSUME NEW p \in Phases \ Invoking, NEW d \in Definable(TokenSet(texts)),
             Become(Put(r, p, [r.call EXCEPT !.def = d]))
      PROVE  Types(texts)' /\ Nested'
  <2> HIDE DEF r, t
  <2>1. PICK c : c = [r.call EXCEPT !.def = d]
    OBVIOUS
  <2>2. c \in CallSet(texts)
    BY <1>2, <2>1 DEF CallSet
  <2>3. Become(Put(r, p, c))
    BY <1>5, <2>1
  <2> QED BY <1>1, <2>2, <2>3, PutStep DEF r
<1>6. /\ "replacement" \in Phases \ Invoking /\ "ellipsis" \in Phases \ Invoking
      /\ "comma" \in Phases \ Invoking /\ "parameter" \in Phases \ Invoking
      /\ "skip" \in Phases \ Invoking
  BY DEF Phases, Invoking
<1>7. CASE AfterParameter
  <2>1. PICK p \in {"replacement", "parameter", "skip"} : Become(Goto(r, p))
    BY <1>7 DEF AfterParameter
  <2> HIDE DEF r
  <2> QED BY <1>4, <1>6, <2>1
<1>8. CASE Parameter
  <2>1. \/ Become(Goto(r, "replacement"))
        \/ Become([Goto(r, "ellipsis") EXCEPT !.call.def.variadic = TRUE])
        \/ /\ t.sym \in Names
           /\ Become([Goto(r, "comma") EXCEPT !.call.def.params = Append(@,
                      t.sym)])
        \/ Become(Goto(r, "skip"))
    BY <1>8 DEF Parameter
  <2> HIDE DEF r, t
  <2>2. CASE Become([Goto(r, "ellipsis") EXCEPT !.call.def.variadic = TRUE])
    <3>1. PICK d : d = [r.call.def EXCEPT !.variadic = TRUE]
      OBVIOUS
    <3>2. d \in Definable(TokenSet(texts))
      BY <1>3, <3>1 DEF Definable
    <3>3. [Goto(r, "ellipsis") EXCEPT !.call.def.variadic = TRUE]
            = Put(r, "ellipsis", [r.call EXCEPT !.def = d])
      BY <1>2, <3>1 DEF Goto, Put, ActSet, CallSet
    <3> QED BY <1>5, <1>6, <2>2, <3>2, <3>3
  <2>3. CASE /\ t.sym \in Names
             /\ Become([Goto(r, "comma") EXCEPT !.call.def.params = Append(@,
                        t.sym)])
    <3>1. PICK ps \in Seq(Names) : ps = Append(r.call.def.params, t.sym)
      BY <1>3, <2>3, AppendType DEF Definable
    <3>2. PICK d : d = [r.call.def EXCEPT !.params = ps]
      OBVIOUS
    <3>3. d \in Definable(TokenSet(texts))
      BY <1>3, <3>2 DEF Definable
    <3>4. [Goto(r, "comma") EXCEPT !.call.def.params = Append(@, t.sym)]
            = Put(r, "comma", [r.call EXCEPT !.def = d])
      BY <1>2, <3>1, <3>2 DEF Goto, Put, ActSet, CallSet
    <3> QED BY <1>5, <1>6, <2>3, <3>3, <3>4
  <2> QED BY <1>4, <1>6, <2>1, <2>2, <2>3
<1> QED BY <1>7, <1>8

(* ... and the definition.                                                 *)
LEMMA EndDefinitionKeeps ==
  ASSUME NEW texts, Types(texts), Nested, Define
  PROVE  Types(texts)' /\ Nested'
<1>1. Self.phase \notin Expanding /\ status' = "running"
  BY DEF Define, At, Expanding
<1>2. /\ Advance(Self) \in ActSet(texts) /\ Advance(Self).pending = <<>>
      /\ Self.call \in CallSet(texts) /\ <<>> \in texts
  BY <1>1, DirectiveRead
<1>3. Become(Forgets(Advance(Self), "scan"))
  BY DEF Define, Forgets
<1>4. PICK b : b = Forgets(Advance(Self), "scan")
  OBVIOUS
<1>5. /\ b \in ActSet(texts) /\ b.frames = Advance(Self).frames
           /\ b.pending = <<>>
      /\ b.phase \notin Invoking /\ Become(b)
  <2>1. "scan" \in Phases /\ "scan" \notin Invoking
    BY DEF Phases, Invoking
  <2> QED BY <1>2, <1>3, <1>4, <2>1, ForgetType
<1>6. macros' \in [Names -> Definable(TokenSet(texts))]
  <2>1. Self.call.def \in Definable(TokenSet(texts))
    BY <1>2 DEF CallSet
  <2>2. macros \in [Names -> Definable(TokenSet(texts))]
    BY DEF Types
  <2> QED BY <2>1, <2>2 DEF Define
<1> QED BY <1>1, <1>5, <1>6, DirectiveStep

-----------------------------------------------------------------------------
(* The lexer's tokens of a file.                                           *)
LEMMA FileTokensType ==
  ASSUME NEW texts, <<>> \in texts, NEW syms \in Seq(Strings)
  PROVE  FileTokens(syms) \in Seq(TokenSet(texts))
<1> DEFINE lines == IF syms = <<>> \/ syms[Len(syms)] = "nl" THEN syms
                    ELSE Append(syms, "nl")
           Before(i) == {j \in 1 .. i - 1 : lines[j] = "nl"}
           First(i)  == \A j \in 1 .. i - 1 :
                          lines[j] # " " => \E k \in Before(i) : j <= k
           Lexed(i) == [sym |-> lines[i], text |-> <<>>, bol |-> First(i),
                        space |-> i > 1 /\ lines[i - 1] = " ",
                        line |-> Cardinality(Before(i)) + 1, hs |-> {}]
           toks == [i \in DOMAIN lines |-> Lexed(i)]
           kept == {i \in DOMAIN lines : lines[i] # " "}
<1>1. FileTokens(syms) = Keep(toks, kept)
  BY DEF FileTokens
<1>2. lines \in Seq(Spellings)
  <2>1. Strings \subseteq Spellings /\ "nl" \in Spellings
    BY DEF Spellings
  <2>2. syms \in Seq(Spellings)
    BY <2>1, SeqWider
  <2> QED BY <2>1, <2>2, AppendType
<1>3. ASSUME NEW i \in DOMAIN lines
      PROVE  Lexed(i) \in TokenSet(texts)
  <2>1. i \in Nat /\ lines[i] \in Spellings
    BY <1>2
  <2>2. PICK n \in Nat : n = Cardinality(Before(i))
    <3>1. Before(i) \subseteq 1 .. i - 1
      OBVIOUS
    <3>2. IsFiniteSet(1 .. i - 1)
      <4>1. 1 \in Int /\ i - 1 \in Int
        BY <2>1
      <4> QED BY <4>1, FS_Interval
    <3> HIDE DEF Before
    <3>3. IsFiniteSet(Before(i))
      BY <3>1, <3>2, FS_Subset
    <3> QED BY <3>3, FS_CardinalityType
  <2>3. PICK first \in BOOLEAN : first = First(i)
    OBVIOUS
  <2>4. PICK space \in BOOLEAN : space = (i > 1 /\ lines[i - 1] = " ")
    OBVIOUS
  <2>5. Lexed(i) = [sym |-> lines[i], text |-> <<>>, bol |-> first,
                                  space |-> space,
                    line |-> n + 1, hs |-> {}]
    BY <2>2, <2>3, <2>4
  <2>6. n + 1 \in Int /\ {} \in SUBSET Names
    OBVIOUS
  <2> HIDE DEF lines, Lexed
  <2> QED BY <2>1, <2>5, <2>6 DEF TokenSet
<1> HIDE DEF lines, Lexed
<1>4. toks \in Seq(TokenSet(texts)) /\ DOMAIN toks = DOMAIN lines
  <2>1. DOMAIN lines = 1 .. Len(lines) /\ Len(lines) \in Nat
    BY <1>2
  <2> QED BY <1>3, <2>1
<1>5. kept \in SUBSET DOMAIN toks
  BY <1>4
<1> HIDE DEF toks, kept
<1> QED BY <1>1, <1>4, <1>5, KeepType

LEMMA FileFrameType ==
  ASSUME NEW texts, <<>> \in texts, NEW syms \in Seq(Strings)
  PROVE  FileFrame(syms) \in FrameSet(texts) /\ FileFrame(syms).of = "file"
BY FileTokensType DEF FileFrame, FrameSet

(* A file is read above files only.                                        *)
LEMMA OpenedType ==
  ASSUME NEW texts, <<>> \in texts, NEW a \in ActSet(texts), Bare(a), NEW h
  PROVE  /\ Opened(a, h) \in ActSet(texts) /\ Bare(Opened(a, h))
         /\ Opened(a, h).pending = a.pending /\ Opened(a, h).phase = "scan"
<1>1. PICK g \in ActSet(texts) :
        /\ g = Goto(a, "scan") /\ g.frames = a.frames /\ g.pending = a.pending
        /\ g.phase = "scan"
  <2>1. "scan" \in Phases
    BY DEF Phases
  <2> QED BY <2>1, GotoType
<1>2. Bare(g)
  BY <1>1, SameFrames
<1>3. CASE LexerDepth(a) >= IncludeCap \/ h \notin DOMAIN Headers
  BY <1>1, <1>2, <1>3 DEF Opened
<1>4. CASE ~(LexerDepth(a) >= IncludeCap \/ h \notin DOMAIN Headers)
  <2>1. Headers[h] \in Seq(Strings)
    BY <1>4, ExpansionAssumption
  <2>2. PICK f \in FrameSet(texts) : f = FileFrame(Headers[h]) /\ f.of = "file"
    BY <2>1, FileFrameType
  <2>3. PICK fs \in Seq(FrameSet(texts)) : fs = Append(g.frames, f)
    BY AppendType DEF ActSet
  <2>4. PICK o : o = [g EXCEPT !.frames = fs]
    OBVIOUS
  <2>5. Opened(a, h) = o
    BY <1>1, <1>4, <2>2, <2>3, <2>4 DEF Opened
  <2>6. /\ o \in ActSet(texts) /\ o.frames = fs /\ o.pending = g.pending
        /\ o.phase = g.phase
    BY <2>4 DEF ActSet
  <2>7. PICK n \in Nat : n = Len(g.frames)
    BY DEF ActSet
  <2>8. /\ DOMAIN g.frames = 1 .. n /\ DOMAIN fs = 1 .. n + 1
        /\ \A k \in 1 .. n : fs[k] = g.frames[k]
        /\ fs[n + 1] = f
    BY <2>3, <2>7 DEF ActSet
  <2>9. Bare(o)
    <3>1. ASSUME NEW k \in DOMAIN o.frames PROVE ~Replaces(o, k)
      <4>1. CASE k \in 1 .. n
        BY <1>2, <2>6, <2>8, <4>1 DEF Bare, Replaces
      <4>2. CASE k = n + 1
        BY <2>2, <2>6, <2>8, <4>2, ExpansionAssumption DEF Replaces
      <4> QED BY <2>6, <2>8, <4>1, <4>2
    <3> QED BY <3>1 DEF Bare
  <2> QED BY <1>1, <2>5, <2>6, <2>9
<1> QED BY <1>3, <1>4

(* Where nothing is being replaced, nothing needs hiding.                  *)
LEMMA BareSound ==
  ASSUME NEW texts, NEW a \in ActSet(texts), Bare(a)
  PROVE  Layered(a) /\ Hidden(a)
<1>1. DOMAIN a.frames = 1 .. Len(a.frames) /\ Len(a.frames) \in Nat
  BY DEF ActSet
<1>2. Layered(a)
  BY DEF Layered, Bare
<1>3. Hidden(a)
  <2>1. ASSUME NEW f \in DOMAIN a.frames,
               NEW g \in 1 .. f PROVE g \in DOMAIN a.frames
    BY <1>1
  <2> QED BY <2>1 DEF Hidden, HidesBelow, Bare
<1> QED BY <1>2, <1>3

(* #include: a header is pushed above files only.                          *)
LEMMA IncludeKeeps ==
  ASSUME NEW texts, Types(texts), Nested,
         IncludeWithoutName \/ HeaderName \/ ComputedInclude \/ OpenHeader
  PROVE  Types(texts)' /\ Nested'
<1> DEFINE r == Advance(Self)
           t == Token(Self)
<1>1. Self.phase \notin Expanding /\ macros' = macros /\ status' = "running"
  BY DEF IncludeWithoutName, HeaderName, ComputedInclude, OpenHeader, At,
     Expanding
<1>2. /\ r \in ActSet(texts) /\ r.call = Self.call /\ r.call \in CallSet(texts)
      /\ t \in TokenSet(texts) /\ r.phase = Self.phase /\ r.pending = <<>>
      /\ Bare(r) /\ <<>> \in texts /\ Len(acts) = 1
  BY <1>1, DirectiveRead
<1>3. CASE IncludeWithoutName
  <2>1. Become(Goto(r, "scan"))
    BY <1>3 DEF IncludeWithoutName
  <2> HIDE DEF r, t
  <2>2. Goto(r, "scan") = Put(r, "scan", r.call)
    BY <1>2 DEF Goto, Put, ActSet
  <2>3. "scan" \in Phases \ Invoking
    BY DEF Phases, Invoking
  <2> QED BY <1>1, <1>2, <2>1, <2>2, <2>3, PutStep DEF r
<1>4. CASE HeaderName
  <2>1. Become([Goto(r, "open") EXCEPT !.call.name = t])
    BY <1>4 DEF HeaderName
  <2> HIDE DEF r, t
  <2>2. PICK c : c = [r.call EXCEPT !.name = t]
    OBVIOUS
  <2>3. c \in CallSet(texts)
    BY <1>2, <2>2 DEF CallSet
  <2>4. [Goto(r, "open") EXCEPT !.call.name = t] = Put(r, "open", c)
    BY <1>2, <2>2 DEF Goto, Put, ActSet
  <2>5. "open" \in Phases \ Invoking
    BY DEF Phases, Invoking
  <2> QED BY <1>1, <2>1, <2>3, <2>4, <2>5, PutStep DEF r
<1>5. CASE ComputedInclude
  <2>1. Become([Goto(r, "rest") EXCEPT !.call.cur = <<t>>])
    BY <1>5 DEF ComputedInclude
  <2> HIDE DEF r, t
  <2>2. PICK cu \in Seq(TokenSet(texts)) : cu = <<t>>
    BY <1>2, <<t>> \in Seq(TokenSet(texts))
  <2>3. PICK c : c = [r.call EXCEPT !.cur = cu]
    OBVIOUS
  <2>4. c \in CallSet(texts)
    BY <1>2, <2>3 DEF CallSet
  <2>5. [Goto(r, "rest") EXCEPT !.call.cur = <<t>>] = Put(r, "rest", c)
    BY <1>2, <2>2, <2>3 DEF Goto, Put, ActSet
  <2>6. "rest" \in Phases \ Invoking
    BY DEF Phases, Invoking
  <2> QED BY <1>1, <2>1, <2>4, <2>5, <2>6, PutStep DEF r
<1>6. CASE OpenHeader /\ ~LineEnd(t)
  <2>1. Become(r) /\ r.phase = "open"
    BY <1>2, <1>6 DEF OpenHeader, At
  <2> HIDE DEF r, t
  <2>2. r = Put(r, "open", r.call)
    BY <1>2, <2>1 DEF Put, ActSet
  <2>3. "open" \in Phases \ Invoking
    BY DEF Phases, Invoking
  <2> QED BY <1>1, <1>2, <2>1, <2>2, <2>3, PutStep DEF r
<1>7. CASE OpenHeader /\ LineEnd(t)
  <2>1. Become([Opened(r, Self.call.name.sym) EXCEPT !.call = NoCall])
    BY <1>7 DEF OpenHeader
  <2> HIDE DEF r, t
  <2>2. PICK o : o = Opened(r, Self.call.name.sym)
    OBVIOUS
  <2>3. /\ o \in ActSet(texts) /\ Bare(o) /\ o.pending = <<>>
             /\ o.phase = "scan"
    BY <1>2, <2>2, OpenedType
  <2>4. PICK b : b = [o EXCEPT !.call = NoCall]
    OBVIOUS
  <2>5. b \in ActSet(texts) /\ b.frames = o.frames /\ b.pending = <<>>
          /\ b.phase = "scan"
    <3>1. NoCall \in CallSet(texts)
      BY <1>2, NoCallType
    <3> QED BY <2>3, <2>4, <3>1 DEF ActSet
  <2>6. Bare(b) /\ Layered(b) /\ Hidden(b)
    BY <2>3, <2>5, SameFrames, BareSound
  <2>7. b.phase \notin Invoking /\ Become(b)
    BY <2>1, <2>2, <2>4, <2>5 DEF Invoking
  <2>8. macros' \in [Names -> Definable(TokenSet(texts))]
    BY <1>1 DEF Types
  <2> QED BY <1>1, <1>2, <2>5, <2>6, <2>7, <2>8, LoneKeeps
<1> QED BY <1>3, <1>4, <1>5, <1>6, <1>7

(* The line of a computed #include or #line is handed to an activation of  *)
(* its own, ...                                                            *)
LEMMA CollectLineKeeps ==
  ASSUME NEW texts, Types(texts), Nested, CollectLine
  PROVE  Types(texts)' /\ Nested'
<1> DEFINE r == Advance(Self)
           t == Token(Self)
<1>1. Self.phase = "rest" /\ macros' = macros /\ status' = "running"
        /\ Self.phase \notin Expanding
  BY DEF CollectLine, At, Expanding
<1>2. /\ r \in ActSet(texts) /\ r.call = Self.call /\ r.call \in CallSet(texts)
      /\ t \in TokenSet(texts) /\ r.phase = Self.phase /\ r.pending = <<>>
      /\ Bare(r) /\ <<>> \in texts /\ Len(acts) = 1
  BY <1>1, DirectiveRead
<1>3. r.call.cur \in Seq(TokenSet(texts))
  BY <1>2 DEF CallSet
<1>4. CASE ~LineEnd(t)
  <2>1. Become([r EXCEPT !.call.cur = Append(@, t)])
    BY <1>4 DEF CollectLine
  <2> HIDE DEF r, t
  <2>2. PICK cu \in Seq(TokenSet(texts)) : cu = Append(r.call.cur, t)
    BY <1>2, <1>3, AppendType
  <2>3. PICK c : c = [r.call EXCEPT !.cur = cu]
    OBVIOUS
  <2>4. c \in CallSet(texts)
    BY <1>2, <2>3 DEF CallSet
  <2>5. [r EXCEPT !.call.cur = Append(@, t)] = Put(r, "rest", c)
    BY <1>1, <1>2, <2>2, <2>3 DEF Put, ActSet
  <2>6. "rest" \in Phases \ Invoking
    BY DEF Phases, Invoking
  <2> QED BY <1>1, <2>1, <2>4, <2>5, <2>6, PutStep DEF r
<1>5. CASE LineEnd(t)
  <2>1. acts' = Append([acts EXCEPT ![Len(acts)] = Goto(r, "computed")],
                  PushTokens(Activation(<<>>), "argument", r.call.cur))
    BY <1>5 DEF CollectLine
  <2> HIDE DEF r, t
  <2>2. PICK c : c = Goto(r, "computed")
    OBVIOUS
  <2>3. /\ c \in ActSet(texts) /\ c.frames = r.frames /\ c.pending = <<>>
        /\ c.phase = "computed"
    <3>1. "computed" \in Phases
      BY DEF Phases
    <3> QED BY <1>2, <2>2, <3>1, GotoType
  <2>4. Bare(c) /\ Layered(c) /\ Hidden(c)
    BY <1>2, <2>3, SameFrames, BareSound
  <2>5. Sound(macros, c)
    BY <2>3, <2>4 DEF Sound, PushedBack, Called, InDirective
  <2>6. Waits(macros, c)
    BY <2>3 DEF Waits
  <2>7. PICK toks \in Seq(TokenSet(texts)) : toks = r.call.cur
    BY <1>3
  <2>8. PICK b : b = PushTokens(Activation(<<>>), "argument", toks)
    OBVIOUS
  <2>9. b \in ActSet(texts) /\ Sound(macros, b) /\ b.phase \in Expanding
    BY <1>2, <2>7, <2>8, BegunType
  <2>10. acts \in Seq(ActSet(texts)) /\ Len(acts) = 1
    BY <1>2 DEF Types
  <2>11. PICK stack : stack = WithLast(acts, c)
    OBVIOUS
  <2>12. /\ stack \in Seq(ActSet(texts)) /\ Len(stack) = Len(acts)
         /\ stack[Len(acts)] = c
         /\ \A k \in 1 .. Len(acts) - 1 : stack[k] = acts[k]
    <3>2. ~(\E k \in 1 .. Len(acts) - 1 : TRUE) /\ Len(acts) > 0
      BY <2>10
    <3>3. /\ stack \in Seq(ActSet(texts)) /\ Len(stack) = Len(acts)
          /\ stack[Len(acts)] = c
      BY <2>3, <2>10, <2>11, <3>2, UpdateLast
    <3> QED BY <3>2, <3>3
  <2>13. acts' = Append(stack, b)
    BY <2>1, <2>2, <2>7, <2>8, <2>11 DEF WithLast
  <2>14. Len(acts) > 1 => c.phase \in Expanding
    BY <2>10
  <2> QED BY <1>1, <2>5, <2>6, <2>9, <2>12, <2>13, <2>14, BeginKeeps
<1> QED BY <1>4, <1>5

(* #line changes what the file under way presumes of its lines.            *)
LEMMA RenumberedType ==
  ASSUME NEW texts, NEW a \in ActSet(texts), Bare(a), NEW n \in Int
  PROVE  /\ Renumbered(a, n) \in ActSet(texts) /\ Bare(Renumbered(a, n))
         /\ Renumbered(a, n).pending = a.pending
              /\ Renumbered(a, n).phase = "scan"
<1>1. PICK g \in ActSet(texts) :
        /\ g = Goto(a, "scan") /\ g.frames = a.frames /\ g.pending = a.pending
        /\ g.phase = "scan"
  <2>1. "scan" \in Phases
    BY DEF Phases
  <2> QED BY <2>1, GotoType
<1>2. Bare(g)
  BY <1>1, SameFrames
<1>3. CASE n = 0
  BY <1>1, <1>2, <1>3 DEF Renumbered
<1>4. CASE n # 0
  <2>1. PICK d \in Int : d = Delta(n, a.call.name)
    <3>1. a.call.name.line \in Int
      BY DEF ActSet, CallSet, TokenSet
    <3> QED BY <3>1 DEF Delta
  <2>2. PICK k : k = TopFile(a)
    OBVIOUS
  <2>3. PICK fs : fs = [g.frames EXCEPT ![k].delta = d]
    OBVIOUS
  <2>4. Renumbered(a, n) = [g EXCEPT !.frames = fs]
    BY <1>1, <1>4, <2>1, <2>2, <2>3 DEF Renumbered, ActSet
  <2>5. /\ fs \in Seq(FrameSet(texts)) /\ DOMAIN fs = DOMAIN g.frames
        /\ \A i \in DOMAIN fs : fs[i].of = g.frames[i].of
    <3>1. g.frames \in Seq(FrameSet(texts))
      BY DEF ActSet
    <3>2. ASSUME NEW i \in DOMAIN g.frames
          PROVE  fs[i] \in FrameSet(texts) /\ fs[i].of = g.frames[i].of
      <4>1. PICK f \in FrameSet(texts) : f = g.frames[i]
        BY <3>1, <3>2
      <4>2. fs[i] = IF i = k THEN [f EXCEPT !.delta = d] ELSE f
        BY <2>3, <4>1
      <4>3. [f EXCEPT !.delta = d] \in FrameSet(texts)
              /\ [f EXCEPT !.delta = d].of = f.of
        BY DEF FrameSet
      <4> QED BY <4>1, <4>2, <4>3
    <3>3. DOMAIN fs = DOMAIN g.frames /\ fs = [i \in DOMAIN g.frames |-> fs[i]]
      BY <2>3
    <3>4. DOMAIN g.frames = 1 .. Len(g.frames) /\ Len(g.frames) \in Nat
      BY <3>1
    <3>5. fs \in Seq(FrameSet(texts))
      BY <3>2, <3>3, <3>4, SeqOf
    <3> QED BY <3>2, <3>3, <3>5
  <2>6. PICK o : o = [g EXCEPT !.frames = fs]
    OBVIOUS
  <2>7. o \in ActSet(texts) /\ o.frames = fs /\ o.pending = g.pending
          /\ o.phase = g.phase
    BY <2>5, <2>6 DEF ActSet
  <2>8. Bare(o)
    BY <1>2, <2>5, <2>7 DEF Bare, Replaces
  <2> QED BY <1>1, <2>4, <2>6, <2>7, <2>8
<1> QED BY <1>3, <1>4

(* ... whose result names the header or the line.                          *)
LEMMA EndComputedKeeps ==
  ASSUME NEW texts, Types(texts), Nested, EndComputed
  PROVE  Types(texts)' /\ Nested'
<1>1. PICK caller : caller = acts[Len(acts) - 1]
  OBVIOUS
<1>2. PICK after : after = IF caller.call.name.sym = "line"
                           THEN Renumbered(caller, LineNumber(Self.out))
                           ELSE Computed(caller, Self.out)
  OBVIOUS
<1>3. /\ ~Driver /\ caller.phase = "computed" /\ macros' = macros
           /\ status' = "running"
      /\ acts' = [SubSeq(acts, 1, Len(acts) - 1) EXCEPT
                    ![Len(acts) - 1] = [after EXCEPT !.call = NoCall]]
  BY <1>1, <1>2 DEF EndComputed, At
<1>4. Len(acts) > 1 /\ caller \in ActSet(texts) /\ Sound(macros, caller)
        /\ <<>> \in texts
  BY <1>1, <1>3, CallerSound DEF Types
<1>5. Bare(caller) /\ caller.pending = <<>>
  BY <1>3, <1>4 DEF Sound, InDirective, PushedBack, Expanding
<1>6. LineNumber(Self.out) \in Int
  <2>1. Numbers \in [DOMAIN Numbers -> Nat] /\ LineMax \in Nat
    BY ExpansionAssumption
  <2>2. \A s \in DOMAIN Numbers : Numbers[s] \in Nat
    BY <2>1
  <2>3. CASE \/ Self.out = <<>>
             \/ Self.out[1].sym \notin DOMAIN Numbers
             \/ Len(Self.out) > 1 /\ Self.out[2].sym # "string"
    BY <2>3 DEF LineNumber
  <2>4. CASE ~(\/ Self.out = <<>>
               \/ Self.out[1].sym \notin DOMAIN Numbers
               \/ Len(Self.out) > 1 /\ Self.out[2].sym # "string")
    <3>1. PICK n \in Nat : n = Numbers[Self.out[1].sym]
      BY <2>2, <2>4
    <3>2. LineNumber(Self.out) = IF n
            = 0 THEN 1 ELSE IF n > LineMax THEN LineMax ELSE n
      BY <2>4, <3>1 DEF LineNumber
    <3> QED BY <2>1, <3>2
  <2> QED BY <2>3, <2>4
<1>7. /\ after \in ActSet(texts) /\ Bare(after) /\ after.pending = <<>>
      /\ after.phase = "scan"
  <2>1. CASE caller.call.name.sym = "line"
    <3>1. PICK n \in Int : n = LineNumber(Self.out)
      BY <1>6
    <3> QED BY <1>2, <1>4, <1>5, <2>1, <3>1, RenumberedType
  <2>2. CASE caller.call.name.sym # "line"
    <3>1. PICK line : line = Self.out
      OBVIOUS
    <3>2. CASE Len(line) = 1 /\ line[1].sym \in HeaderNames
      <4>1. after = Opened(caller, line[1].sym)
        BY <1>2, <2>2, <3>1, <3>2 DEF Computed
      <4> QED BY <1>4, <1>5, <4>1, OpenedType
    <3>3. CASE ~(Len(line) = 1 /\ line[1].sym \in HeaderNames)
      <4>1. after = Goto(caller, "scan")
        BY <1>2, <2>2, <3>1, <3>3 DEF Computed
      <4>2. "scan" \in Phases
        BY DEF Phases
      <4>3. after \in ActSet(texts) /\ after.frames = caller.frames
              /\ after.pending = <<>> /\ after.phase = "scan"
        BY <1>4, <1>5, <4>1, <4>2, GotoType
      <4> QED BY <1>5, <4>3, SameFrames
    <3> QED BY <3>2, <3>3
  <2> QED BY <2>1, <2>2
<1>8. PICK b : b = [after EXCEPT !.call = NoCall]
  OBVIOUS
<1>9. b \in ActSet(texts) /\ b.frames = after.frames /\ b.pending = <<>>
        /\ b.phase = "scan"
  <2>1. NoCall \in CallSet(texts)
    BY <1>4, NoCallType
  <2> QED BY <1>7, <1>8, <2>1 DEF ActSet
<1>10. Layered(b) /\ Hidden(b)
  BY <1>7, <1>9, SameFrames, BareSound
<1>11. Sound(macros, b) /\ b.phase \in Expanding
  BY <1>9, <1>10, ScanSound
<1>12. acts' = [SubSeq(acts, 1, Len(acts) - 1) EXCEPT ![Len(acts) - 1] = b]
  BY <1>3, <1>8
<1> QED BY <1>3, <1>4, <1>9, <1>11, <1>12, EndKeeps

-----------------------------------------------------------------------------
(* The run is given up: what was written so far is all that is left.       *)
LEMMA OutOfMemoryKeeps ==
  ASSUME NEW texts, Types(texts), Nested, OutOfMemory
  PROVE  Types(texts)' /\ Nested'
<1>1. <<>> \in texts /\ status' = "oom" /\ macros' = macros
      /\ macros \in [Names -> Definable(TokenSet(texts))]
  BY DEF OutOfMemory, Types
<1>2. PICK out \in Seq(TokenSet(texts)) : out = acts[1].out
  <2>1. acts[1] \in ActSet(texts)
    BY DEF Types
  <2> QED BY <2>1 DEF ActSet
<1>3. PICK b : b = [Activation(<<>>) EXCEPT !.out = out]
  OBVIOUS
<1>4. acts' = <<b>>
  BY <1>2, <1>3 DEF OutOfMemory
<1>5. PICK e : e = PushTokens(Activation(<<>>), "argument", <<>>)
  OBVIOUS
<1>6. e = Activation(<<>>)
  BY <1>5 DEF PushTokens
<1>7. PICK none \in Seq(TokenSet(texts)) : none = <<>>
  BY NoneType
<1>8. e \in ActSet(texts) /\ Sound(macros, e)
  BY <1>1, <1>5, <1>7, BegunType
<1>9. e.phase = "scan" /\ e.pending = <<>>
  BY <1>6 DEF Activation
<1>10. /\ b \in ActSet(texts) /\ b.frames = e.frames /\ b.pending = <<>>
       /\ b.phase = "scan"
  <2>1. b = [e EXCEPT !.out = out]
    BY <1>3, <1>6
  <2> QED BY <1>2, <1>8, <1>9, <2>1 DEF ActSet
<1>11. Sound(macros', b)
  <2>1. Layered(b) /\ Hidden(b)
    BY <1>8, <1>10, SameFrames DEF Sound
  <2> QED BY <1>1, <1>10, <2>1, ScanSound
<1>12. Len(acts') = 1 /\ acts'[1] = b /\ acts' \in Seq(ActSet(texts))
  BY <1>4, <1>10
<1>13. Types(texts)'
  BY <1>1, <1>12 DEF Types
<1>14. \A k \in 1 .. Len(acts') : k = 1
  BY <1>12
<1>15. ~(\E k \in 2 .. Len(acts') : TRUE)
         /\ ~(\E k \in 1 .. Len(acts') - 1 : TRUE)
  BY <1>12
<1> QED BY <1>11, <1>12, <1>13, <1>14, <1>15 DEF Nested

(* Every action.                                                           *)
LEMMA StepKeeps ==
  ASSUME NEW texts, Types(texts), Nested, Step
  PROVE  \E more : Types(more)' /\ Nested'
<1>1. CASE Stringize
  BY <1>1, StringizeKeeps
<1>2. CASE ~Stringize
  <2>1. CASE Finish \/ StartDirective \/ DropNewline \/ EmitToken
    BY <2>1, ScanKeeps
  <2>2. CASE ExpandObject \/ ExpandLine
    BY <2>2, ObjectKeeps
  <2>3. CASE StartCall
    BY <2>3, StartCallKeeps
  <2>4. CASE SkipNewline \/ OpenParen \/ CollectNewline \/ Comma \/ CollectToken
    BY <2>4, CollectKeeps
  <2>5. CASE NotCalled \/ Unterminated \/ WrongCount
    BY <2>5, GiveUpKeeps
  <2>6. CASE CloseParen
    BY <2>6, CloseKeeps
  <2>7. CASE Paste \/ LeftOperand \/ CopyElement
    BY <2>7, OperandsKeep
  <2>8. CASE ExpandArgument
    BY <2>8, ExpandArgumentKeeps
  <2>9. CASE EndArgument
    BY <2>9, EndArgumentKeeps
  <2>10. CASE PushReplacement
    BY <2>10, PushReplacementKeeps
  <2>11. CASE DirectiveName
    BY <2>11, DirectiveNameKeeps
  <2>12. CASE SkipToLineEnd \/ Undef \/ DefineWithoutName
    BY <2>12, LineEndKeeps
  <2>13. CASE DefineName \/ DefineFunction \/ DefineObject \/ CollectReplacement
    BY <2>13, DefineKeeps
  <2>14. CASE Parameter \/ AfterParameter
    BY <2>14, ParametersKeep
  <2>15. CASE Define
    BY <2>15, EndDefinitionKeeps
  <2>16. CASE IncludeWithoutName \/ HeaderName \/ ComputedInclude \/ OpenHeader
    BY <2>16, IncludeKeeps
  <2>17. CASE CollectLine
    BY <2>17, CollectLineKeeps
  <2>18. CASE EndComputed
    BY <2>18, EndComputedKeeps
  <2> QED BY <1>2, <2>1, <2>2, <2>3, <2>4, <2>5, <2>6, <2>7, <2>8, <2>9,
          <2>10, <2>11,
             <2>12, <2>13, <2>14, <2>15, <2>16, <2>17, <2>18 DEF Step
<1> QED BY <1>1, <1>2

LEMMA InitHolds == Init => IInv
<1> SUFFICES ASSUME Init PROVE IInv
  OBVIOUS
<1> DEFINE texts == {<<>>}
<1>1. <<>> \in texts
  OBVIOUS
<1>2. /\ program.macros \in [Names -> Definable(GivenTokens)]
      /\ program.file \in Seq(Strings)
  BY ExpansionAssumption DEF Init
<1>3. macros \in [Names -> Definable(TokenSet(texts))]
  <2>1. GivenTokens \subseteq TokenSet(texts)
    <3>1. Nat \subseteq Int /\ Strings \subseteq Spellings
      BY DEF Spellings
    <3> QED BY <3>1 DEF GivenTokens, TokenSet
  <2>2. Seq(GivenTokens) \subseteq Seq(TokenSet(texts))
    BY <2>1, SeqWider
  <2>3. Definable(GivenTokens) \subseteq Definable(TokenSet(texts))
    BY <2>2 DEF Definable
  <2> QED BY <1>2, <2>3 DEF Init
<1> HIDE DEF texts
<1>4. PICK f \in FrameSet(texts) : f = FileFrame(program.file) /\ f.of = "file"
  BY <1>1, <1>2, FileFrameType
<1>5. PICK fs \in Seq(FrameSet(texts)) : fs = <<f>> /\ DOMAIN fs = {1}
        /\ fs[1] = f
  BY <<f>> \in Seq(FrameSet(texts)), DOMAIN <<f>> = {1}, <<f>>[1] = f
<1>6. PICK b : b = Activation(fs)
  OBVIOUS
<1>7. /\ b \in ActSet(texts) /\ b.frames = fs /\ b.pending = <<>>
      /\ b.phase = "scan"
  <2>1. PICK none : none = <<>> /\ none \in Seq(PendingSet(texts))
                    /\ none \in Seq(TokenSet(texts))
    BY NoneType
  <2>2. NoCall \in CallSet(texts)
    BY <1>1, NoCallType
  <2>3. b = [frames |-> fs, pending |-> none, out |-> none, phase |-> "scan",
             call |-> NoCall]
    BY <1>6, <2>1 DEF Activation
  <2>4. none \in Seq(PendingSet(texts)) /\ none \in Seq(TokenSet(texts))
    BY <2>1
  <2>5. b \in ActSet(texts)
    BY <2>2, <2>3, <2>4 DEF ActSet, Phases
  <2>6. b.frames = fs /\ b.pending = none /\ b.phase = "scan"
    BY <2>3
  <2> QED BY <2>1, <2>5, <2>6
<1>8. Bare(b)
  BY <1>4, <1>5, <1>7, ExpansionAssumption DEF Bare, Replaces
<1>9. Sound(macros, b)
  BY <1>7, <1>8, BareSound, ScanSound
<1>10. acts = <<b>> /\ status = "running"
  BY <1>4, <1>5, <1>6 DEF Init
<1>11. Len(acts) = 1 /\ acts[1] = b /\ acts \in Seq(ActSet(texts))
  BY <1>7, <1>10
<1>12. Types(texts)
  BY <1>1, <1>3, <1>10, <1>11 DEF Types
<1>13. \A k \in 1 .. Len(acts) : k = 1
  BY <1>11
<1>14. ~(\E k \in 2 .. Len(acts) : TRUE)
         /\ ~(\E k \in 1 .. Len(acts) - 1 : TRUE)
  BY <1>11
<1>15. Nested
  BY <1>9, <1>11, <1>13, <1>14 DEF Nested
<1> QED BY <1>12, <1>15 DEF IInv

LEMMA NextKeeps == IInv /\ [Next]_vars => IInv'
<1> SUFFICES ASSUME IInv, [Next]_vars PROVE IInv'
  OBVIOUS
<1>1. PICK texts : Types(texts)
  BY DEF IInv
<1>2. Nested
  BY DEF IInv
<1>3. CASE Step
  <2>1. PICK more : Types(more)' /\ Nested'
    BY <1>1, <1>2, <1>3, StepKeeps
  <2> QED BY <2>1 DEF IInv
<1>4. CASE OutOfMemory
  <2>1. Types(texts)' /\ Nested'
    BY <1>1, <1>2, <1>4, OutOfMemoryKeeps
  <2> QED BY <2>1 DEF IInv
<1>5. CASE UNCHANGED vars
  <2>1. Types(texts)' /\ Nested'
    BY <1>1, <1>2, <1>5 DEF vars, Types, Nested
  <2> QED BY <2>1 DEF IInv
<1> QED BY <1>3, <1>4, <1>5 DEF Next

(* Every state of the run is of its type and nested: what expand_function, *)
(* substitute and collect_args index and pop is there, whatever the source *)
(* and the definitions say (expand.c:328 and 471 to 746, stream.c).        *)
THEOREM InvariantHolds == Spec => []IInv
BY InitHolds, NextKeeps, PTL DEF Spec

(* In every state, a token that may be read again hides each replacement   *)
(* it would be read in, and no macro is being replaced within its own      *)
(* replacement: the promise of hide sets (hideset.c, expand.c:241 to 277   *)
(* and 587 to 637) that makes rescanning end.                              *)
THEOREM ReplacementsNest == Spec => []NestedHidden
<1>1. IInv => NestedHidden
  <2> SUFFICES ASSUME IInv PROVE NestedHidden
    OBVIOUS
  <2>1. PICK texts : Types(texts)
    BY DEF IInv
  <2>2. DOMAIN acts = 1 .. Len(acts)
    BY <2>1 DEF Types
  <2>3. ASSUME NEW k \in DOMAIN acts
        PROVE  Layered(acts[k]) /\ Hidden(acts[k])
    BY <2>2 DEF IInv, Nested, Sound
  <2> QED BY <2>3 DEF NestedHidden, Layered, Hidden
<1> QED BY <1>1, InvariantHolds, PTL

(* No stream holds more replacements than there are macros, however the    *)
(* definitions refer to each other: the input stack of stream.c, which has *)
(* no bound of its own for them, is bounded by the hide sets.              *)
THEOREM ReplacementsBounded ==
  Spec => [](\A k \in DOMAIN acts :
               Cardinality({f \in DOMAIN acts[k].frames : Replaces(acts[k], f)})
                 <= Cardinality(Names))
<1>1. IInv => \A k \in DOMAIN acts :
        Cardinality({f \in DOMAIN acts[k].frames : Replaces(acts[k], f)})
          <= Cardinality(Names)
  <2> SUFFICES ASSUME IInv, NEW k \in DOMAIN acts
               PROVE  Cardinality({f \in DOMAIN acts[k].frames :
                                     Replaces(acts[k], f)})
                        <= Cardinality(Names)
    OBVIOUS
  <2> DEFINE a == acts[k]
             R == {f \in DOMAIN a.frames : Replaces(a, f)}
             h == [f \in R |-> a.frames[f].of]
  <2>1. PICK texts : Types(texts)
    BY DEF IInv
  <2>2. a \in ActSet(texts) /\ Layered(a)
    BY <2>1 DEF Types, IInv, Nested, Sound
  <2>3. DOMAIN a.frames = 1 .. Len(a.frames) /\ Len(a.frames) \in Nat
    BY <2>2 DEF ActSet
  <2>4. \A f, g \in R : f < g => h[f] # h[g]
    BY <2>2 DEF Layered
  <2>5. \A f \in R : f \in Nat /\ h[f] \in Names
    BY <2>3 DEF Replaces
  <2>6. h \in Injection(R, Names)
    <3>1. h \in [R -> Names]
      BY <2>5
    <3>2. ASSUME NEW f \in R, NEW g \in R, h[f] = h[g] PROVE f = g
      <4>1. f \in Nat /\ g \in Nat /\ ~(f < g) /\ ~(g < f)
        BY <2>4, <2>5, <3>2
      <4> QED BY <4>1
    <3> HIDE DEF h, R
    <3> QED BY <3>1, <3>2 DEF Injection, IsInjective
  <2>7. IsFiniteSet(Names)
    BY ExpansionAssumption
  <2> HIDE DEF h
  <2> QED BY <2>6, <2>7, FS_Injection
<1> QED BY <1>1, InvariantHolds, PTL

(* Only #undef and #define change a definition, and no call is under way   *)
(* when they do: the only activation is the driver's, in a directive.      *)
LEMMA ChangesAlone ==
  ASSUME NEW texts, Types(texts), Nested, [Next]_vars, macros' # macros
  PROVE  \A k \in DOMAIN acts : acts[k].phase \notin Invoking
<1>1. Undef \/ Define
  <2>1. CASE OutOfMemory
    BY <2>1 DEF OutOfMemory
  <2>2. CASE UNCHANGED vars
    BY <2>2 DEF vars
  <2>3. CASE Step /\ ~(Undef \/ Define)
    <3>1. CASE Finish \/ StartDirective \/ DropNewline \/ EmitToken
               \/ ExpandObject
               \/ ExpandLine \/ StartCall \/ SkipNewline \/ OpenParen
                    \/ NotCalled
      BY <3>1 DEF Finish, StartDirective, DropNewline, EmitToken, ExpandObject,
                  ExpandLine, StartCall, SkipNewline, OpenParen, NotCalled
    <3>2. CASE CollectNewline \/ Unterminated \/ Comma \/ CloseParen
               \/ WrongCount
               \/ CollectToken \/ Stringize \/ Paste \/ LeftOperand
                    \/ CopyElement
               \/ ExpandArgument \/ EndArgument \/ PushReplacement
      BY <3>2 DEF CollectNewline, Unterminated, Comma, CloseParen, WrongCount,
                  CollectToken, Stringize, Paste, LeftOperand, CopyElement,
                  ExpandArgument, EndArgument, PushReplacement
    <3>3. CASE DirectiveName \/ SkipToLineEnd \/ DefineWithoutName \/ DefineName
               \/ DefineFunction \/ DefineObject \/ Parameter \/ AfterParameter
               \/ CollectReplacement
      BY <3>3 DEF DirectiveName, SkipToLineEnd, DefineWithoutName, DefineName,
                  DefineFunction, DefineObject, Parameter, AfterParameter,
                  CollectReplacement
    <3>4. CASE IncludeWithoutName \/ HeaderName \/ OpenHeader \/ ComputedInclude
               \/ CollectLine \/ EndComputed
      BY <3>4 DEF IncludeWithoutName, HeaderName, OpenHeader, ComputedInclude,
                  CollectLine, EndComputed
    <3> QED BY <2>3, <3>1, <3>2, <3>3, <3>4 DEF Step
  <2> QED BY <2>1, <2>2, <2>3 DEF Next
<1>2. Self.phase \notin Expanding
  BY <1>1 DEF Undef, Define, At, Expanding
<1>3. Len(acts) = 1 /\ DOMAIN acts = 1 .. Len(acts) /\ Self = acts[Len(acts)]
  BY <1>2, DirectiveRead, SelfType
<1>4. \A k \in DOMAIN acts : acts[k] = Self
  BY <1>3
<1> QED BY <1>2, <1>4 DEF Expanding, Invoking

(* No definition changes while a call that may use it is under way         *)
(* (expand.c:296, 328 and 645).                                            *)
THEOREM DefinitionsStay == Spec => DefinitionsHeld
<1>1. IInv /\ [Next]_vars =>
        [macros' # macros =>
           \A k \in DOMAIN acts :
             acts[k].phase \notin {"lookahead", "collect", "substitute"}]_vars
  <2> SUFFICES ASSUME IInv, [Next]_vars, macros' # macros
               PROVE  \A k \in DOMAIN acts : acts[k].phase \notin Invoking
    BY DEF Invoking
  <2>1. PICK texts : Types(texts)
    BY DEF IInv
  <2> QED BY <2>1, ChangesAlone DEF IInv
<1> QED BY <1>1, InvariantHolds, PTL DEF Spec, DefinitionsHeld
=============================================================================
