# Verification of qcc

qcc is the front end of a C11 compiler: a preprocessor, a lexer, conversion of
preprocessing tokens to tokens, and a parser that prints a syntax tree. It is
one sequential program. What is hard in it is not concurrency but long legal
sequences of calls over mutable structures (a hash table that shifts its
entries, a stack of conditional groups, a symbol table with scopes, an input
stack that macro expansion pushes on and reads through), grammars resolved by
look-ahead, arithmetic at the edges of types, and memory that may be refused at
any step. The modules here model those parts; TLC explores small instances of
them, and TLAPS proves, for instances of every size, the results on the data
structures (conditional stack, macro table, symbol table, arena and interner),
on the hide sets of macro expansion, on the lexer over texts of any length, on
the converter's loop and its decoders, and on the program that joins them.

File names below are relative to `src/src/`.

## The system

| Component | State it keeps | Operations | What makes it correct |
|---|---|---|---|
| conditional inclusion (`pp/internal/cond.c`) | an array of frames with four flags | reset, push, top, pop, emitting | exactly the first true group of every conditional is live, at any nesting; a skipped group is inert |
| macro table (`pp/internal/macro.c`) | an open-addressing array of names and definitions | lookup, put, remove | no stored name is ever unreachable, every probe ends, and the table behaves as a map |
| macro expansion, token stream, hide sets (`pp/internal/expand.c`, `stream.c`, `hideset.c`) | a stack of input frames with pushed-back tokens, hide sets on tokens | next, push back, expand, collect and substitute arguments | the result is that of the rescanning algorithm; it ends; no macro is expanded in its own replacement |
| directives, driver (`pp/internal/directive.c`, `pp/pp.c`) | the presumed line, the macro table, the conditional stack | one handler for each directive, the loop of `qcc_pp_run` | `#` is a directive only at the start of a line that was not made by expansion; errors leave the state as the handler says |
| `#if` expressions (`pp/internal/ceval.c`) | cursor on a token list | evaluate | value in `intmax_t` or `uintmax_t`, unevaluated operands are harmless |
| `#` and `##` (`pp/internal/glue.c`), built-ins (`builtin.c`) | none | stringize, paste, expand | one token results from a paste |
| include search (`pp/internal/incl.c`) | directories, loaded sources | resolve, load | nesting is capped |
| rendering (`pp/render.c`) | none | token list to text | the text is read again as the same tokens on the same lines |
| lexer (`lexer/`) | cursor, start-of-line flag, repaired newline | next | splices and comments vanish, the longest token is cut, each problem is reported once, one newline ends the last line |
| conversion (`convert/`) | token list, the converter's arena and pool | convert a token list | constants get the value of their digits and the first type it fits, strings are concatenated in one encoding |
| types, tree, symbol table (`type/`, `ast/`, `symtab/`) | arenas; a hash table of symbols chained by bucket and by scope | build; open and close a scope, insert, look up | lookup answers the innermost declaration; closing a scope removes its declarations only |
| constant evaluation (`consteval/`) | none | evaluate a tree | promotions and conversions of C |
| parser (`parser/`) | cursor, error flags, the table of symbols, captured parameters | the five entry functions | one tree for each program, the one C's grammar and declarations give it; scopes are balanced |
| arena (`arena/`), interner (`intern/`) | a chain of blocks with a cursor; a hash table of copies in an arena | allocate, reset, dispose; intern | objects are aligned and apart, no size wraps; one pointer for one spelling, as long as the pool lives |
| source files, diagnostics, tokens, status | line starts, a list of messages, tables of names | load, locate, emit | a place is found in its line |
| command line (`app/main.c`) | what the stages hold | run the stages of one of three modes, report, release | nothing is used after it was released and nothing stays; the exit code tells the truth |

Components call each other directly. The driver pulls tokens from the stream,
which pulls from the lexers of the open files; the directive layer reads the
rest of its line from the same stream, changes the macro table and the
conditional stack, and may push a file. Expansion calls itself, on a stream of
its own, for an argument and for a computed `#include`. The lexer's tokens carry
interned spellings, which the macro table compares by pointer. After the last
token, conversion turns the list into tokens for the parser, which registers
names in the symbol table while it parses, asks it whether a name is a type,
and calls the constant evaluator for enumerators, array lengths and static
assertions. There are no threads, callbacks or messages.

`PROJECT.json` lists all components with what of them is modelled, and the
hazards: the places of the code where a long sequence of legal calls, an order
of steps, a boundary value or a refused allocation could go wrong.

## Modules

| Component | Module | Promise or reference | Instance | Proofs |
|---|---|---|---|---|
| conditional inclusion | `Conditionals` | `ConditionalGroups` | `Conditionals` | `ConditionalsProofs` |
| macro table | `MacroTable`, `Probing` | `MacroMap` | `MCMacroTable` | `MacroTableProofs`, `ProbingProofs` |
| arena | `Arena` | | `MCStorage` | `StorageProofs` |
| interner | `Interner`, `Probing` | `StringPool` | `MCStorage` | `StorageProofs`, `ProbingProofs` |
| symbol table | `Symtab` | `ScopeStack` | `Symtab` | `SymtabProofs` |
| expansion, directives | `Expansion` | `Rescanning` | `MCExpansion` | `ExpansionProofs` |
| `#if` expressions | `ConditionEval`, `ControllingExpressions` | `ExpressionGrammar`, `ConstantExpressions` | `MCControllingExpressions` | |
| constant evaluation | `ConstEval` | `ConstantExpressions` | `MCConstantExpressions` | |
| lexer, source text | `Cursor`, `Scanners`, `Lexer` | `LexicalGrammar` | `MCTokens` | `LexerProofs` |
| conversion | `Literals`, `Conversion` | `LiteralValues` | `MCTokens` | `DriverProofs` |
| command line, driver | `Stages`, `Driver` | | `MCTokens` | `DriverProofs` |
| rendering, texts of `#` and `##` | `Rendering` | `LexicalGrammar` | `MCTokens` | |
| parser | `Parser`, `Statements`, `TranslationUnit` | `ExpressionGrammar`, `Programs` | `MCTranslationUnit` | |

`Conditionals` has one action for each kind of line, with the whole of what the
directive handler, the driver and `cond.c` do for it. The text of a line is
reduced to what the stack can tell apart: the value of a condition, the name of
a macro. `nest` is history, the conditionals as the source wrote them; the
properties compare the flags with it. `ConditionalGroups` says the same without
flags: a conditional is a sequence of conditions, and its live group the first
that holds. It is the abstract specification that `Conditionals` implements.

`Probing` is what the macro table and the interner have in common: an array of
cells, a home for every key, and a probe as an operator, since probing only
reads. `MacroTable` takes one step for each turn of the two loops that change the
array (rehashing into a larger one, shifting back after a removal), so the
invariants also say what holds between two turns. `mix`, the hash of every
name, is chosen at the start, because the code hashes addresses. `MacroMap` is a
dictionary, and `dict` the refinement mapping.

`Arena` computes addresses as the code does, modulo the size of a word, over a
`malloc` that answers with any free region its alignment allows or refuses.
`Interner` extends it: the pool's copies are objects of the arena, other
clients ask for memory between two calls, and the growth of the table takes a
step for each slot. `StringPool` says that a spelling has one pointer.

`Symtab` keeps the bucket chains and the scope lists as sequences of symbols,
and unlinks one symbol for each step of `qcc_symtab_pop_scope`. `ScopeStack`
is a stack of maps.

`Expansion` models `qcc_pp_run` and `expand_token_list` as activations, each
with the frames, the pushed-back token and the call in progress that the code
holds in its stream and its locals; a step reads one token or substitutes one.
A token has its spelling, the white space before it, its line and its hide set.
The operators `#` and `##`, `__VA_ARGS__`, `__LINE__`, the parameter lists of
`#define` and the lines `#line` presumes are part of it. `Rescanning` is the
reference: the expansion algorithm with hide sets as a recursive function on a
flat list of tokens, with no stack, no pushback and no frames.

`ConstEval` is the evaluator of `consteval.c`, case for case, on words of
`LongWidth` bits; `ConditionEval` is that of `ceval.c`, which parses and computes
at once. `ConstantExpressions` defines the value and the type that C gives an
expression in mathematical integers. Both evaluators are compared with it: a
declaration's expression is given as a tree, a line of `#if` as tokens, and
`ExpressionGrammar` says which tree they stand for.

`Cursor` reads a text, a sequence of characters, through its splices, and finds
the line of an offset. A loop of the code is written as its body, a function
from a place (an offset, the two ends of a binary search) to the next, which
leaves alone the places where the loop ends; `LoopEnd` says where a loop stops,
`LoopFound` what it has collected by then. `Scanners` has an operator for every scanner, which
answers with a verdict; a call of `qcc_lexer_next` is the action `ReadToken` of
`Lexer`. `LexicalGrammar` deletes all splices first and cuts off the longest
token that satisfies a predicate, without scanner or look-ahead. `Literals` and
`Conversion` decode constants and strings, one turn of the converter's loop for
each step; `LiteralValues` gives the same spelling its meaning from the
standard. `Stages` has the stages of `main.c`, in its three modes: each
acquires what it holds, may fail, and the libraries show in it only by the count
of errors they have reported. `Driver` runs these stages over `Lexer` and
`Conversion`: each of its actions is the conjunction of an action of `Stages`
with the call of a library. `Lexer!LexSpec` is the lexer under any caller, who
may read on as often as he likes and ask for a header name whenever he likes. The preprocessor and the
parser are open (they succeed, find errors, or fail), as their own modules say
more. `Rendering` prints the tokens the lexer read; what it must guarantee is
stated with the same grammar, by reading the text again.

`Parser` and `Statements` have an operator for each function of `parser.c`,
from the state of the parser before the call to the state after it; in
`TranslationUnit` a call of one of the five public functions is an action, and
the loop of `main.c` runs them to the end of the tokens. Every request for
memory is counted and any one of them may be refused. The functions that reach
themselves are called through one recursive operator for each module, `Parse` and
`Call`, so that TLC's coverage statistics, which unfold every other call, stay
small. `ExpressionGrammar` is C's expression grammar as a set of derivations,
without precedence climbing or look-ahead. `Programs` has declarators and
statements as they are meant, with the tokens they are written in and the trees
they stand for under the declarations in force. The parser keeps the symbol
table as a list of lists, which is what `Symtab` is shown to implement.

## Runs

| Run | What it shows |
|---|---|
| `conditionals` | The flags of `cond.c` say what 6.10.1 asks (`FlagsMatchSource`), the flag a frame copied from outside never goes stale (`FramesNested`), at most one group is taken, skipped groups are inert, and `ConditionalGroups` is implemented. |
| `conditionals_file` | Expected to fail: a file that ends inside a conditional it opened is not reported unless it is the outermost. |
| `macro_table` | Every entry stays reachable (`Findable`), a removal disturbs only the chains it has still to reach (`ShiftConfined`), an empty cell always stops a probe (`ProbeStops`), both loops end (`CallsReturn`), the table is a map (`ImplementsMap`). |
| `storage` | Objects of the arena are aligned, inside their blocks and apart (`ObjectsApart`), its figures are sums over the blocks (`Accounted`), a block is reserved only to serve (`GrowsToServe`); stored spellings are found (`Findable`), their copies stay theirs (`CopiesHeld`), and the pool promises of `StringPool` hold, whichever request for memory is refused. |
| `symtab` | Chains are ordered from the innermost scope out, they agree with the scope lists, a symbol to be unlinked is the head of its chain, and `ScopeStack` is implemented. |
| `expansion` | The output, with its white space, lines and line numbers, is that of `Rescanning`; nested replacements hide their macros (`NestedHidden`); no definition changes while a call that may use it is read or substituted (`DefinitionsHeld`); every run ends. |
| `constant_expressions` | The evaluator of declarations agrees with C where the arms of a conditional have one type (`Conforms`); that of `#if` takes a line exactly when C does, and refuses what is no expression or has no value (`PpConforms`). |
| `constant_expressions_arms` | Expected to fail: with arms of different types the result has the type of the selected arm. |
| `tokens` | Texts are cut as the grammar cuts them (`Tokenizes`), each lexical problem is reported once, where it is (`ReportsEach`), the missing newline is supplied once, also to a caller that reads on (`NewlineOnce`); constants and strings get value, type and encoding, or one diagnostic (`Converts`); no stage uses what was released, and all is released at the end (`HeldWhileNeeded`); the exit code tells (`ExitTellsTruth`); printed tokens read back (`RendersBack`), strings and pastes made by `#` and `##` are the tokens they should be (`GluesBack`). |
| `parser` | Expressions, declarators and programs get the trees they stand for, and nothing that is no expression is accepted; scopes are balanced and every refusal of memory is reported, also in files that break off or lack a token. |
| `parser_diagnostics` | Expected to fail: `QCC_ERR_PARSE` is returned with no diagnostic when the symbol of a local declaration finds no memory. |
| `parser_speculation` | Expected to fail: an enumeration in the length of an array at file scope is registered twice, and a valid program refused. |

### Bounds

* `conditionals`: three nested conditionals of three groups, two levels of
  files, an array that grows at the second frame. A frame is related only to
  the one below it, so a third level adds the only new case, a skipped group in
  a skipped group. Three groups are an `#if`, an `#elif` and an `#else`, or an
  `#elif` after an `#else`.
* `macro_table`: four names, two definitions and a table of four buckets that
  doubles once. Hashes 0, 3 and 7 wrap around the end of both tables, and 3 and
  7 collide before the growth and not after it. Three entries in four buckets
  would exceed the load limit, so the third forces the growth and the longest
  shifts happen in the larger array. The names are interchangeable, so hashes
  are assigned in ascending order only.
* `storage`: addresses of 0 to 31 (`SizeMax`), a header of 6, blocks that
  malloc aligns to 4, so that a payload starts misaligned for the strictest
  request and padding occurs, as behind the code's header of three words on a
  16-byte alignment. Requests of 0, 3 and `SizeMax` bytes at no, a bad and the
  strictest alignment: every overflow test is reached from both sides. Four
  spellings whose homes collide in a table that grows from two slots, one of
  the empty length. `Few` cuts off after five objects in one life of the arena,
  at most one of them another client's. `SIZE_MAX` and `UINTPTR_MAX` are taken
  to be equal.
* `symtab`: two names in two name spaces, three insertions, three scopes, one or
  two buckets used. Three symbols are enough for a chain to be out of order and
  for a scope to be closed between two of its neighbours. `InitialScopes` is 1,
  so the array of scopes grows on the way.
* `expansion`: every source of up to four tokens, in seven families: calls
  (bare and inside an open argument list), lines with true and apparent
  directives, includes, arguments for replacements full of `#` and `##`,
  definitions with any parameter list of four tokens, `#line` with any operands;
  and some longer ones. The macros reach themselves directly, through each
  other, through their arguments and through a pasted name. Files nest up to
  three (`IncludeCap`), lines count up to 40 (`LineMax`), pasted words grow to
  six letters. Memory may fail at every step. A directive is on one physical
  line.
* `constant_expressions`: widths of 2, 3, 4 and 8 bits for `char`, `short`,
  `int` and `long`, which keep the order the code relies on; in a line of `#if`
  a word has 8 bits. The operands are the least, the greatest, zero and one of
  every type, all pairs of them under all operators, and conditionals and casts
  around them; for `#if` all lines of up to four of ten tokens, and longer ones
  that join two operators, conditionals and dead operands, 73,000 in all.
* `tokens`: texts of up to four or five pieces, a family for each part of the
  lexical grammar (comments and splices, line ends, punctuators, numbers,
  universal names, header names, trigraphs) and of the conversion (integers at
  the limits of words of 5 and 8 bits, floating constants, elements of
  characters and strings in every encoding, all three-byte sequences of the
  byte classes, runs of strings, every keyword with its neighbours). The
  scanners look at most three characters ahead, so four pieces hold every
  context. Printed are all pairs of 39 tokens and triples of 14. The program
  runs in three modes, with up to two failures of its surroundings. A caller
  over-reads the end twice.
* `parser`: every sequence of up to four pieces of an expression (a piece is an
  operand, an operator with its operand, a parenthesis, a parenthesised type
  name, ...), 41,370 in all; every declarator of up to four pointers, lengths,
  parameter lists and parentheses; every function of three statements about one
  name after three preludes and under three parameter lists; three files in
  which each request for memory in turn is refused, each token in turn is
  missing, or the end comes early. Between them every action of
  `TranslationUnit` is taken. Declarators of functions that return functions or
  arrays are not among the inputs: the code accepts them, C does not.

### Fairness

`MacroTable!FairSpec` has weak fairness of the two loops, `Expansion!FairSpec`
of every step but the failure of memory, `Driver!Spec` of its steps. All are
sequential code in which nothing waits. No other module states fairness. Refusal
of memory is never fair: it may always happen and need not.

Deadlock is checked in `conditionals`, `macro_table`, `storage` and `symtab`,
whose components can always be called again. `expansion`, `tokens`, the
evaluators and the parser end with their input.

## Proofs

`ConditionalsProofs` holds for every bound on nesting and groups, every initial
capacity and any number of macros. The inductive invariant is `IInv`, which is
`TypeOK`, `FramesNested` and `FlagsMatchSource` together. None is inductive
alone: an `#elif` activates its group by `outer_active` and `taken` of the top
frame, and that this is right needs both that `outer_active` equals the
liveness of the frame below and that the flags there match the source.
`FramesStayNested`, `FlagsCorrect` and `TypeCorrect` follow;
`SkippedGroupsAreInert` and `OneGroupAtMost` are action properties proved from
the invariant, and `Refinement` shows that every step is a step of
`ConditionalGroups` or a stutter.

`ProbingProofs` has what both hash tables need: distances on the ring of cells,
that a probe of an array that is not full lands on its key or on the empty cell
where the key belongs, and that filling that cell keeps every chain whole.

`MacroTableProofs` holds for every initial size of at least two, every hash
function and every finite set of names. `IInv` is `Types`, `Counted` (the count
is the number of full cells and below the load limit), `Sound` (keys are unique
and chains unbroken, but for the hole of a removal), `Shifting` (what the scan
of a removal has passed may stay where it is) and `Growing` (the new array holds
the old entries up to the cursor, and no other). The central lemmas say that an
entry may move to the hole exactly when its home is not between the hole and its
cell, and that a chain broken only at the hole is whole again after the move.
That a probe ends (`ProbesStop`) is a counting argument on the load limit.
So is the measure of `LoopsDescend`, the safety half of `CallsReturn`: besides the
hole there is an empty cell, and each turn of a removal shrinks the finite set
of cells up to it, as the moves of entries change which cell is the hole and no
other empty cell.
`Refinement` maps the array to a dictionary; growth and shifting are stutters.

The first part of `StorageProofs` holds for every word size, header, alignment of malloc, block size
and set of requests. The invariant says of the chain of blocks that they lie
apart, inside memory and with cursors within their capacity, of the objects that
each is aligned and below the cursor of its block, and of the figures that what
is used does not exceed what is reserved (`WithinReserve`). From it follow that
objects are apart, and `GrowsToServe`: the padding computed for a new block never
exceeds what was added for it, and the additions the code makes without a test
do not wrap, so the second attempt cannot fail. That the figures are the sums over
the blocks (`ArenaAccounted`) needs a theory of sums: `SumOf` is a recursive
function, and that it exists, which the library's induction cannot give here,
comes from a least counterexample (`SumsExist`: the length at which no table of
partial sums exists would have a predecessor for which one does). The conjunct of
the invariant is `Tallied`; a growth adds to both figures in one step, a block
with nothing used to the one and padding and request to the other.

Its second part joins the arena's invariant with that of a growing table, by
`Kept`: each entry points at an object of its own, with room for the spelling
and its terminator, that the arena still holds. The arena's own results hold
with both kinds of clients (`SharedArenaApart`, `SharedArenaAccounted`,
`SharedArenaGrowsToServe`). `Refinement` shows that the
interner is a `StringPool`, growth and other clients' requests being stutters.

`SymtabProofs` holds for any names, hashes, number of buckets and bounds. Its
invariant is `Layered` (each scope lists its own symbols, newest first, and all
those of an inner scope are newer than those of an outer one), `Closing` (what a
closing scope has left is a part of its list), `Chained` (a chain holds exactly
the bound symbols of its bucket, newest first) and `Counted`. The argument turns
on one idea: the first match in a list that is newest first is the greatest
match of its set (`FirstIsGreatest`). So a chain and the stack of scopes, which
list the same symbols differently, answer alike: the greatest bound match is in
the innermost scope that has one (`VisibleIsGreatest`). `Refinement` follows
action by action; unlinking a symbol is a stutter.

`ExpansionProofs` holds for any source, any definitions in force, any headers,
any result of pasting and any depth of nested activations. `NestedHidden` speaks
of the tokens in the frames; what makes it inductive is everything a token passes
through outside them. `IInv` says, for a set of texts that grows with every
string `#` makes, that the state is of its type (`Types`), and of every
activation (`Sound`):

* `Layered`: the frames of replacements lie above the files and are of different
  macros;
* `Hidden`: a token in a frame that names a macro replaced by this frame or one
  below hides it;
* `PushedBack`: so does the token that was read ahead and given back, though the
  frame it came from may be gone, and one that came from a file is there only
  when no replacement is being read;
* `Called`: the name of the call in progress hides what is below it, from the
  moment the parenthesis is looked for to the push of the replacement; once the
  arguments are read, the closing parenthesis does, too, and there is an argument
  for every parameter. The hide set of a call is the intersection of the two, so
  both are needed;
* `InDirective`: a directive is performed only when no replacement is being read.

Of the activations together, `Nested` says that each but the last is inside a
call of `expand_token_list`, for an argument or a computed `#include`
(`Waits`), and that all but the first only expand. `ReplacementsNest` is
`NestedHidden`; `ReplacementsBounded` draws the conclusion that makes rescanning
end: there are never more replacements on a stream than macros with a name.
`DefinitionsStay` follows because a directive is performed by the driver alone,
between two of its calls: nested activations, which collect or substitute, never
reach one. The assumption `ExpansionAssumption` says that a source is a sequence
of spellings, that what is pasted is not a string, and that there are finitely
many names.

`LexerProofs` holds for any text, of any length and any characters, and any
caller. What it needs first is a theory of loops. The loops of the lexer are
recursive functions over data, and the library's induction theorems take an
operator; so `Induction` is about a set of numbers, and comes from a least
counterexample. With it, a loop whose body lowers a measure (`Descends`) has its
values where its definition says (`RecursionIs`), ends, inside the text and not
before where it began, keeps what its body keeps, and collects a
sequence. On these rest, in order:

* reading: a splice is always skipped to its end, a logical character is at or
  behind the place it is read from, and one that is not the end of the text lies
  inside it;
* lines: the index holds exactly 0 and the offsets behind newlines, ascending,
  and the binary search of `qcc_source_location` ends with the number of starts
  that are not above the offset. That this is one more than the newlines before
  it needs a bijection between starts and newlines;
* scanners: the verdict of each, whatever the text, is a span that begins at its
  character and ends behind it inside the text, and what it reports lies there;
* white space and comments: the loop over blanks ends, and stands at the end of
  the text or at a character that is not blank.

The invariant of the calls, `LexInv`, is `Spans` (tokens are spans of the text
that end at or before the cursor), `Ordered`, `Remembered`, `Paid`, `FirstOfLine`
and `Numbered`. `NewlineOnce` alone is not inductive: it becomes so by
`Remembered`, that a supplied newline has set `eof_newline_done`, and by `Spans`,
that only such a newline is empty. `Paid` is the measure: until the end of input
every token has cost a character, or the memory of the newline.
`LexedToTheEnd`, that the end comes within as many calls as the text has
characters and two, is the safety half of termination. `LexedOnward` is an
action property: a call appends one token and changes none that was returned.

`DriverProofs` begins with `Stages`, for any number of failures in one run, of
declarations and of errors. `Holding` gives what is held at each stage. On the
way out it is a lower bound only, because a failing stage leaves less behind
than a complete one; that the three disposals still return everything is
`ReleaseKeeps` and `DisposeKeeps`. `ExitSoFar`, `WrittenOut` and `NotSilent` say
of the exit code, at any stage, what `ExitTellsTruth` says at the end; in between
the code may still be 0 with errors reported, until `ExitCode` asks the sink.

It goes on with the decoders of the converter, for every word, width and code
point:

* `KeywordsFound`: the binary search finds a word exactly if it is in the table,
  whatever the sorted table. `SpanCompare` is shown to be an order, transitive
  and total on words (`Before`); what the search keeps is that no entry outside
  its bounds can be the word (`Sought`).
* `IntegerRead`: the loop over digits reads the value, or notices that it has no
  place in the word. The point is that the code's test, made by a division before
  it multiplies, is exact, and stays so once the word has wrapped:
  `DigitOverflows`. `DigitsRead` is
  the value in the integers, which no word bounds.
* `Utf8ReadBack` and `Utf8OneSpelling`: encoder and decoder are inverse on the
  code points that are not surrogates, and the decoder takes nothing else. They
  are statements about four ranges, each with the bits of its lead byte.

Then the converter's loop. Its code has no bound but the end of input, and a
comment says that there always is one (`convert.c:305-307`). `PpTokensEnded` shows
that phase 4, for a text without directives, hands on the end of input as the
last token, only there, and no newline: it counts the tokens that are kept
(`Rank`), since their list is defined by counting. `ConvInv` says that the loop
stands at a token that is there; that every token before it was put out
(`Taken`), but for the stray ones and the strings that join the one before; that
what was put out is in order; and that the end of input comes last, exactly when
the run has succeeded. A run of strings ends before the end of input does
(`RunEndIs`), so that the jump over it stays inside. `ProgramConverts` states
`ConvInv` for the program; it needs the lexer's invariant, for the tokens, that
of the stages, and `ReadFirst`: only a text that was read to its end is
converted. TLC finds it true in the instance of `tokens`.

At the end come the refinements: `RunsTheLexer` and `RunsTheStages` say that each
behaviour of `Driver` is one of `LexSpec` and one of `StagesSpec`, step by step,
and `ProgramNewlineOnce`, `ProgramTokens`, `ProgramHolds` and `ProgramExit` carry
the results over to the program.

The assumptions are the named ones on the constants (`BoundsAssumption`,
`TableAssumption`, `ProbingAssumption`, `ArenaAssumption`, `InternerAssumption`,
`SymtabAssumption`, `ExpansionAssumption`, `DriverAssumption`,
`LiteralsAssumption`, `CodeAssumption`, `KeywordAssumption`), which TLC evaluates
in the runs of the modules. `DriverAssumption` says that a text is a sequence of
characters and a mode one of the modes; `LiteralsAssumption` how the widths are
ordered, and that a power of two is a positive number, which the provers do not
know of `^`; `CodeAssumption` that different characters have different codes, a
fact about the table of codes that TLC computes and the provers cannot, as it is
taken out of strings; `KeywordAssumption` that the table is sorted, which the
code relies on (`token.c:113-114`).

Only model-checked, and why:

* liveness (`CallsReturn`, `RunEnds`), which the provers do not reach, beyond the
  measures above;
* `MatchesReference`: `Rescanning` is a recursive operator on lists;
* `Tokenizes`, `ReportsEach`, `Converts`, `RendersBack` and `GluesBack`: they
  compare the code's scanners and decoders with a grammar that is stated
  differently, in a module of recursive operators. What is proved of the code's
  side is where tokens are, on which line, and that they end; what an integer
  constant is worth; and that UTF-8 is read back;
* the converter for texts with directives and macros: phase 4 is `Expansion`
  there, whose tokens are not those of `Lexer`;
* `Conforms` and `PpConforms`, and all properties of the parser: recursion over
  trees and tokens.

## Findings

* `pp/pp.c:195` says a conditional open at end of file is an error; for an
  included file it is not noticed (`conditionals_file`).
* `consteval/consteval.c:317` gives a conditional the type of one arm only
  (`constant_expressions_arms`).
* `parser/parser.c:1523` loses an out-of-memory status (`parser_diagnostics`).
* `parser/parser.c:2181` parses a declarator twice though it has side effects
  (`parser_speculation`).

Smaller observations from writing the models, which no run is about. Where a
model and a reference would differ by one of them, the reference or the property
names the exception.

* Lexer: the header calls it safe to read on after the end (`lexer.h:67-68`),
  but a caller that does so gets one newline between two ends of input when the
  text ended with its newline (`lexer.c:99`); `NewlineOnce` allows it. In a
  literal, a backslash, a splice and a line end make the line end the escaped
  character, and the literal goes on over the line, against the remark at
  `scan.c:197-199`.
* Rendering: `render.h:12-14` says the output re-lexes to the same sequence. It
  does not for a number that ends in a dot or a sign before a word (`f(1.)x`
  prints `1.x`), a word or number before a universal character name, a lone
  backslash before such a word or at the end of a line (`Rendering!Overlooked`),
  and for a `#` made by an expansion that comes first on its line.
* `#` and `##`: replacement lists of object-like macros are not searched for
  `##` (`expand.c:241`). In `x ## # p` the paste takes the `#` itself. A literal
  that is not terminated can be pasted.
* `#define`: a parameter list that breaks off at the end of its line takes the
  next line with it (`directive.c:147`); `defined`, `__LINE__` and `__VA_ARGS__`
  may be defined.
* `#line` on a spliced line numbers the next one wrongly (`directive.c:912`).
  `__LINE__` that comes from another macro has the line of its place in that
  macro's definition, and never begins a line.
* `#if`: the test for overflow of a constant (`ceval.c:127`) misses a product
  that wraps past the old value; the suffix `lul` passes; an octal escape stops at
  a 0 (`ceval.c:199`), so that `'\012'` is read as several characters; a
  malformed `defined` is reported and the line may still be taken; malformed
  constants are reported in dead operands, too. Shifts out of range and
  `INTMAX_MIN / -1` have no defined result.
* Conversion: hexadecimal escapes wrap in the value (`escape.c:71-79`) before
  they are tested; a hexadecimal floating constant without exponent passes. The
  status of reporting a stray token is not looked at (`convert.c:244-256`).
* Driver: the result of flushing standard output is ignored, against
  `main.c:20-23`; a failing `fclose` sets the exit code without a message. Both
  are named in `ExitTellsTruth`.
* Interner: where the copy finds no memory the table may have grown already,
  against "unchanged" in the header; the contents are the same. Arena: after
  `qcc_arena_dispose` it still serves requests, against "inert" (`arena.c:225`).
* Parser: it rejects `int f(int (a))`, as a parenthesis in a parameter groups
  only before `*`, `(` or `[`; it registers a name after its initializer, so that
  in `int T = sizeof(T)` the name still means what it meant outside; it accepts a
  typedef name as an operand, which is why `ExpressionsConform` compares strings
  without a derivation with a looser grammar; a body may redeclare a parameter
  of its function; a syntax error in the arguments of a call also raises the
  flag for a lack of memory (`parser.c:351-354`).

## Not modelled

Printing of trees, tokens and diagnostics, file reading, path building and the
search of include directories, option parsing and the tables of names: input
and output and pure data. The presumed file name, `__FILE__`, and the messages
of `#error` and `#pragma`. The value of a floating constant (`strtod`). In the
parser: the qualifiers and function specifiers that are consumed and attached,
the places of tokens, and the use without a table of types.

## Plan

Done, in this order: `Conditionals` with its proofs, `MacroTable` with its
proofs, `Symtab`, `Expansion`, `ConstEval`, the parser; then `Arena` and
`Interner` with their proofs, the lexer, the conversion and the program around
them, the evaluator of `#if`, the operators and the numbered lines in
`Expansion`, `Rendering`, `SymtabProofs`; then `ExpansionProofs`, the sums of
the arena, `Stages` with its proofs; then the lexer and the decoders as loops in
place of recursive operators, `LexerProofs`, and the converter and the program in
`DriverProofs`.

What is left:

1. Character constants and strings as theorems: `Utf8ReadBack` is the part that
   concerns encodings, escapes are left.
2. The nesting of files under `IncludeCap` in `Expansion`, as a theorem.
3. The presumed file name and `__FILE__` in `Expansion`; the list of directories
   an include searches.
4. Spliced directives: `Expansion` over the lexer of `Lexer` instead of a list
   of tokens.
