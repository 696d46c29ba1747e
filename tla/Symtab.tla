------------------------------- MODULE Symtab -------------------------------
(***************************************************************************)
(* The symbol table of the parser (symtab/symtab.c): one hash table for    *)
(* the bindings of all open scopes.  A binding is pushed on the chain of   *)
(* its bucket and on the list of the innermost scope; closing a scope      *)
(* walks the scope's list and unlinks each of its bindings from its chain. *)
(*                                                                         *)
(* A symbol is its place in the arena, counted from 1; an arena symbol is  *)
(* never freed.  A linked list is the sequence of its symbols, head first. *)
(* The loop of qcc_symtab_pop_scope takes one action for each symbol.      *)
(***************************************************************************)
EXTENDS Naturals, Sequences, FiniteSets
LOCAL INSTANCE TLC

CONSTANTS
  Names,             \* identifiers
  BucketCount,       \* SYMTAB_INITIAL_BUCKETS (256 in the code; never grows)
  InitialScopes,     \* SYMTAB_INITIAL_SCOPES (8 in the code)
  MaxSymbols,        \* bound: insertions
  MaxScopes          \* bound: open scopes

ASSUME SymtabAssumption ==
  /\ BucketCount \in Nat \ {0}
  /\ InitialScopes \in Nat \ {0}
  /\ MaxSymbols \in Nat
  /\ MaxScopes \in Nat

VARIABLES
  hash,              \* the bucket of each name: hash_name, masked
  symbols,           \* the arena's symbols
  buckets,           \* the chains, linked by bucket_next
  scopes,            \* the lists of the open scopes, linked by scope_next
  scope_cap,
  symbol_count,
  popping,           \* is qcc_symtab_pop_scope under way?
  rest,              \* its cursor: what is left of the list
  answer             \* what the last completed call returned

vars == <<hash, symbols, buckets, scopes, scope_cap, symbol_count, popping,
          rest, answer>>

Unbound == 0

(* Faulty: the name space of the symbol is not compared.                   *)
MatchesName(list, n, ns) == {i \in DOMAIN list : symbols[list[i]].name = n}

(* The first symbol of a list that binds n in ns, or 0.                    *)
Matches(list, n, ns) ==
  {i \in DOMAIN list : symbols[list[i]].name = n /\ symbols[list[i]].ns = ns}

FirstMatch(list, n, ns) ==
  IF Matches(list, n, ns) = {} THEN Unbound
  ELSE list[CHOOSE i \in Matches(list, n, ns) :
              \A j \in Matches(list, n, ns) : i <= j]

(* The promise, of the scopes as their own lists have them.                *)
frames == [k \in 1 .. Len(scopes) |->
             [key \in Names \X {"ordinary", "tag"} |->
                FirstMatch(scopes[k], key[1], key[2])]]

Scopes == INSTANCE ScopeStack

Slots     == 0 .. BucketCount - 1
Innermost == Len(scopes)
Members(list) == {list[i] : i \in DOMAIN list}
Bucket(s) == hash[symbols[s].name]

-----------------------------------------------------------------------------
(* qcc_symtab_init: the file scope is open.                                *)
Init ==
  /\ hash \in [Names -> Slots]
  /\ symbols = <<>>
  /\ buckets = [b \in Slots |-> <<>>]
  /\ scopes = << <<>> >>
  /\ scope_cap = InitialScopes
  /\ symbol_count = 0
  /\ popping = FALSE
  /\ rest = <<>>
  /\ answer = Scopes!Answer("init", Unbound)

(* qcc_symtab_push_scope where memory suffices.                            *)
PushScope ==
  /\ ~popping
  /\ Innermost < MaxScopes
  /\ scopes' = Append(scopes, <<>>)
  /\ scope_cap' = IF Innermost = scope_cap THEN 2 * scope_cap ELSE scope_cap
  /\ answer' = Scopes!Answer("push", 1)
  /\ UNCHANGED <<hash, symbols, buckets, symbol_count, popping, rest>>

(* Only a full stack asks for memory.                                      *)
PushFails ==
  /\ ~popping
  /\ Innermost = scope_cap
  /\ answer' = Scopes!Answer("push", 0)
  /\ UNCHANGED <<hash, symbols, buckets, scopes, scope_cap, symbol_count,
                 popping, rest>>

PopFileScope ==
  /\ ~popping
  /\ Innermost <= 1
  /\ answer' = Scopes!Answer("pop", 1)
  /\ UNCHANGED <<hash, symbols, buckets, scopes, scope_cap, symbol_count,
                 popping, rest>>

(* Faulty: the file scope is closed like any other.                        *)
PopAny ==
  /\ ~popping
  /\ Innermost > 0
  /\ popping' = TRUE
  /\ rest' = scopes[Innermost]
  /\ UNCHANGED <<hash, symbols, buckets, scopes, scope_cap, symbol_count,
                 answer>>

PopStart ==
  /\ ~popping
  /\ Innermost > 1
  /\ popping' = TRUE
  /\ rest' = scopes[Innermost]
  /\ UNCHANGED <<hash, symbols, buckets, scopes, scope_cap, symbol_count,
                 answer>>

(* unlink_from_bucket: the first link to s is skipped, if there is one.    *)
Unlinked(chain, s) ==
  IF s \in Members(chain)
  THEN LET i == CHOOSE k \in DOMAIN chain :
                  chain[k] = s /\ \A j \in 1 .. k - 1 : chain[j] # s
       IN SubSeq(chain, 1, i - 1) \o SubSeq(chain, i + 1, Len(chain))
  ELSE chain

(* One turn of the loop of qcc_symtab_pop_scope.                           *)
PopSymbol ==
  /\ popping
  /\ rest # <<>>
  /\ buckets' = [buckets EXCEPT ![Bucket(Head(rest))] = Unlinked(@, Head(rest))]
  /\ symbol_count' = symbol_count - 1
  /\ rest' = Tail(rest)
  /\ UNCHANGED <<hash, symbols, scopes, scope_cap, popping, answer>>

(* Faulty: the loop ends at the last symbol and not behind it.             *)
PopLeavesLast ==
  /\ popping
  /\ Len(rest) <= 1
  /\ scopes' = SubSeq(scopes, 1, Innermost - 1)
  /\ popping' = FALSE
  /\ rest' = <<>>
  /\ answer' = Scopes!Answer("pop", 1)
  /\ UNCHANGED <<hash, symbols, buckets, scope_cap, symbol_count>>

PopFinish ==
  /\ popping
  /\ rest = <<>>
  /\ scopes' = SubSeq(scopes, 1, Innermost - 1)
  /\ popping' = FALSE
  /\ answer' = Scopes!Answer("pop", 1)
  /\ UNCHANGED <<hash, symbols, buckets, scope_cap, symbol_count, rest>>

(* Faulty: the chain gets the new symbol at its end.                       *)
InsertLast(n, b) ==
  /\ ~popping
  /\ Len(symbols) < MaxSymbols
  /\ symbols' = Append(symbols, [name |-> n, ns |-> b.ns, kind |-> b.kind,
                                 depth |-> Innermost - 1])
  /\ LET new == Len(symbols) + 1 IN
       /\ buckets' = [buckets EXCEPT ![hash[n]] = Append(@, new)]
       /\ scopes' = [scopes EXCEPT ![Innermost] = <<new>> \o @]
       /\ answer' = Scopes!Answer("insert", new)
  /\ symbol_count' = symbol_count + 1
  /\ UNCHANGED <<hash, scope_cap, popping, rest>>

(* Faulty: the scope's list gets the new symbol at its end.                *)
InsertListedLast(n, b) ==
  /\ ~popping
  /\ Len(symbols) < MaxSymbols
  /\ symbols' = Append(symbols, [name |-> n, ns |-> b.ns, kind |-> b.kind,
                                 depth |-> Innermost - 1])
  /\ LET new == Len(symbols) + 1 IN
       /\ buckets' = [buckets EXCEPT ![hash[n]] = <<new>> \o @]
       /\ scopes' = [scopes EXCEPT ![Innermost] = Append(@, new)]
       /\ answer' = Scopes!Answer("insert", new)
  /\ symbol_count' = symbol_count + 1
  /\ UNCHANGED <<hash, scope_cap, popping, rest>>

(* insert_symbol where memory suffices.                                    *)
Insert(n, b) ==
  /\ ~popping
  /\ Len(symbols) < MaxSymbols
  /\ symbols' = Append(symbols, [name |-> n, ns |-> b.ns, kind |-> b.kind,
                                 depth |-> Innermost - 1])
  /\ LET new == Len(symbols) + 1 IN
       /\ buckets' = [buckets EXCEPT ![hash[n]] = <<new>> \o @]
       /\ scopes' = [scopes EXCEPT ![Innermost] = <<new>> \o @]
       /\ answer' = Scopes!Answer("insert", new)
  /\ symbol_count' = symbol_count + 1
  /\ UNCHANGED <<hash, scope_cap, popping, rest>>

(* Either allocation of insert_symbol fails: nothing is linked yet.        *)
InsertFails ==
  /\ ~popping
  /\ answer' = Scopes!Answer("insert", 0)
  /\ UNCHANGED <<hash, symbols, buckets, scopes, scope_cap, symbol_count,
                 popping, rest>>

-----------------------------------------------------------------------------
(* Lookups                                                                 *)

Asked(op, result) ==
  /\ ~popping
  /\ answer' = Scopes!Answer(op, result)
  /\ UNCHANGED <<hash, symbols, buckets, scopes, scope_cap, symbol_count,
                 popping, rest>>

Found(n, ns) == FirstMatch(buckets[hash[n]], n, ns)

Lookup(n, ns) == Asked("lookup", Found(n, ns))

LookupCurrentScope(n, ns) ==
  Asked("lookup_current_scope", FirstMatch(scopes[Innermost], n, ns))

IsTypedefName(n) ==
  Asked("is_typedef_name",
        LET s == Found(n, "ordinary") IN
          Scopes!Flag(s # Unbound /\ symbols[s].kind = "typedef"))

Next ==
  \/ PushScope \/ PushFails
  \/ PopFileScope \/ PopStart \/ PopSymbol \/ PopFinish
  \/ \E n \in Names, b \in Scopes!Bindings : Insert(n, b)
  \/ InsertFails
  \/ \E n \in Names, ns \in Scopes!NameSpaces :
       Lookup(n, ns) \/ LookupCurrentScope(n, ns)
  \/ \E n \in Names : IsTypedefName(n)

Spec == Init /\ [][Next]_vars
-----------------------------------------------------------------------------
(* Properties                                                              *)

Symbol == {[name |-> n, ns |-> b.ns, kind |-> b.kind, depth |-> d] :
             n \in Names, b \in Scopes!Bindings, d \in Nat}

TypeOK ==
  /\ hash \in [Names -> Slots]
  /\ \A s \in DOMAIN symbols :
       /\ symbols[s].name \in Names
       /\ [ns |-> symbols[s].ns, kind |-> symbols[s].kind] \in Scopes!Bindings
  /\ buckets \in [Slots -> Seq(DOMAIN symbols)]
  /\ scopes \in Seq(Seq(DOMAIN symbols))
  /\ scope_cap \in Nat
  /\ Innermost \in 1 .. scope_cap
  /\ symbol_count \in Nat
  /\ popping \in BOOLEAN
  /\ rest \in Seq(DOMAIN symbols)

NewestFirst(list) == \A i, j \in DOMAIN list : i < j => list[i] > list[j]

(* What a lookup relies on to stop at the first match: on every chain the  *)
(* symbols are newest first, so that no symbol hides one of a scope inside *)
(* its own, whatever scopes were opened and closed in between.             *)
InnermostFirst ==
  \A b \in Slots :
    /\ NewestFirst(buckets[b])
    /\ \A i, j \in DOMAIN buckets[b] :
         i < j => symbols[buckets[b][i]].depth >= symbols[buckets[b][j]].depth

(* The symbols still bound: those of the open scopes, and of a scope that  *)
(* is being closed those the loop has not reached.                         *)
Bound ==
  (UNION {Members(scopes[k]) : k \in 1 .. Innermost - Scopes!Flag(popping)})
    \cup Members(rest)

(* The two sets of links agree: a chain holds exactly the bound symbols of *)
(* its bucket, so that no binding outlives its scope or is lost before it; *)
(* and each open scope lists exactly the bound symbols of its depth.       *)
ChainsAgree ==
  /\ \A b \in Slots : Members(buckets[b]) = {s \in Bound : Bucket(s) = b}
  /\ \A k \in DOMAIN scopes : /\ NewestFirst(scopes[k])
                              /\ \A s \in Members(scopes[k]) :
                                   symbols[s].depth = k - 1
  /\ symbol_count = Cardinality(Bound)

(* Scopes are closed innermost first, so the symbol to unlink is always at *)
(* the head of its chain, with nothing of an inner scope before it.        *)
UnlinksHead == rest # <<>> => Head(buckets[Bucket(Head(rest))]) = Head(rest)

(* The hash table with its chains answers as a stack of scopes would.      *)
ImplementsScopes == Scopes!Spec

(* For TLC.  Every assignment of buckets to names is an initial state, so  *)
(* colliding and separate names are both explored, and the names are       *)
(* interchangeable.                                                        *)
Symmetry == Permutations(Names)
=============================================================================
