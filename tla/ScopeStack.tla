----------------------------- MODULE ScopeStack -----------------------------
(***************************************************************************)
(* What the symbol table promises the parser (symtab/symtab.h, ISO C11     *)
(* 6.2.1 and 6.2.3): a stack of scopes, each a map from an identifier in a *)
(* name space to the symbol declared last for it; a lookup answers from    *)
(* the innermost scope that declares the identifier; closing a scope       *)
(* forgets its declarations, and the file scope is never closed.  Module   *)
(* Symtab is shown to implement it.                                        *)
(***************************************************************************)
EXTENDS Naturals, Sequences

CONSTANT Names             \* identifiers

VARIABLES
  symbols,                 \* every symbol ever declared, in that order
  frames,                  \* open scopes, file scope first
  answer                   \* what the last completed call returned

scopeVars == <<symbols, frames, answer>>

NameSpaces == {"ordinary", "tag"}
Keys       == Names \X NameSpaces

(* What a declaration can bind; "object" stands for object, function and   *)
(* enumeration constant, which no lookup tells apart.                      *)
Bindings == {[ns |-> "ordinary", kind |-> "typedef"],
             [ns |-> "ordinary", kind |-> "object"],
             [ns |-> "tag", kind |-> "tag"]}

Unbound == 0
NoKeys  == [key \in Keys |-> Unbound]
Depth   == Len(frames)

(* A symbol, or 0 for none; of a status or a predicate, 1 for yes.         *)
Answer(op, result) == [op |-> op, result |-> result]
Flag(p) == IF p THEN 1 ELSE 0

Declares(key) == {k \in 1 .. Depth : frames[k][key] # Unbound}

(* The symbol that is visible: the one of the innermost declaring scope.   *)
Visible(key) ==
  IF Declares(key) = {} THEN Unbound
  ELSE LET k == CHOOSE i \in Declares(key) : \A j \in Declares(key) : j <= i
       IN frames[k][key]

IsTypedef(s) == s # Unbound /\ symbols[s].kind = "typedef"

-----------------------------------------------------------------------------
Init ==
  /\ symbols = <<>>
  /\ frames = <<NoKeys>>
  /\ answer = Answer("init", Unbound)

Open ==
  /\ frames' = Append(frames, NoKeys)
  /\ answer' = Answer("push", 1)
  /\ UNCHANGED symbols

Close ==
  /\ frames' = IF Depth > 1 THEN SubSeq(frames, 1, Depth - 1) ELSE frames
  /\ answer' = Answer("pop", 1)
  /\ UNCHANGED symbols

Declare(n, b) ==
  /\ symbols' = Append(symbols, [name |-> n, ns |-> b.ns, kind |-> b.kind,
                                 depth |-> Depth - 1])
  /\ frames' = [frames EXCEPT ![Depth][<<n, b.ns>>] = Len(symbols) + 1]
  /\ answer' = Answer("insert", Len(symbols) + 1)

(* Memory runs out: the call answers so and nothing has changed.           *)
Fails(op) ==
  /\ answer' = Answer(op, 0)
  /\ UNCHANGED <<symbols, frames>>

Asks(op, result) ==
  /\ answer' = Answer(op, result)
  /\ UNCHANGED <<symbols, frames>>

Next ==
  \/ Open
  \/ Close
  \/ \E n \in Names, b \in Bindings : Declare(n, b)
  \/ \E op \in {"push", "insert"} : Fails(op)
  \/ \E key \in Keys : \/ Asks("lookup", Visible(key))
                       \/ Asks("lookup_current_scope", frames[Depth][key])
  \/ \E n \in Names :
       Asks("is_typedef_name", Flag(IsTypedef(Visible(<<n, "ordinary">>))))

Spec == Init /\ [][Next]_scopeVars
=============================================================================
