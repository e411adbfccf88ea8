----------------------------- MODULE ScopedTable -----------------------------
(***************************************************************************)
(* What a symbol table with nested scopes promises, without a stack: one    *)
(* flat map from names to symbols, and for each bound name the depth of the *)
(* scope it was bound in.                                                   *)
(***************************************************************************)
EXTENDS Naturals

CONSTANTS
  Name,   \* identifiers
  Data,   \* what a symbol is: a variable, a function, a type
  None    \* "not bound", not a Symbol

Symbol == [status : {"declared", "defined"}, data : Data]

VARIABLES
  table,  \* the symbol a name is bound to
  level,  \* the depth at which it was bound, 0 for an unbound name
  depth   \* number of open scopes

tvars == <<table, level, depth>>

Init ==
  /\ table = [n \in Name |-> None]
  /\ level = [n \in Name |-> 0]
  /\ depth = 1

Keep(n) == table'[n] = table[n] /\ level'[n] = level[n]

Forget(n) == table'[n] = None /\ level'[n] = 0

\* An unbound name is bound in one of the scopes L.
BindIn(n, L) ==
  /\ table[n] = None
  /\ table'[n] \in Symbol
  /\ level'[n] \in L

\* The definition of what was only declared: the type is the declared one.
Complete(n) ==
  /\ table[n] # None
  /\ table[n].status = "declared"
  /\ table'[n] = [table[n] EXCEPT !.status = "defined"]
  /\ level'[n] = level[n]

\* table' and level' are functions on Name.
Wellformed ==
  /\ table' = [n \in Name |-> table'[n]]
  /\ level' = [n \in Name |-> level'[n]]

Record ==
  /\ Wellformed
  /\ depth' = depth
  /\ \A n \in Name : Keep(n) \/ BindIn(n, {depth}) \/ Complete(n)

Open ==
  /\ Wellformed
  /\ depth' = depth + 1
  /\ \A n \in Name : Keep(n) \/ BindIn(n, {depth, depth + 1}) \/ Complete(n)

\* What was bound in the innermost scope is forgotten, nothing else is.
DropInnermost ==
  \A n \in Name : IF level[n] = depth THEN Forget(n) ELSE Keep(n)

Close ==
  /\ Wellformed
  /\ depth > 1
  /\ depth' = depth - 1
  /\ DropInnermost

\* One scope closes and its sibling opens, as between the branches of an if.
Sibling ==
  /\ Wellformed
  /\ depth > 1
  /\ depth' = depth
  /\ DropInnermost

Reset ==
  /\ depth = 1
  /\ table' = [n \in Name |-> None]
  /\ level' = [n \in Name |-> 0]
  /\ depth' = 1

Next == Record \/ Open \/ Close \/ Sibling \/ Reset

Spec == Init /\ [][Next]_tvars
=============================================================================
