------------------------------ MODULE EnvState ------------------------------
(***************************************************************************)
(* container::EnvState<T> (src/src/acris/container/env_state.hpp): the     *)
(* stack of scopes that the semantic checker and the MIR builder keep while *)
(* they walk the AST.  A stack is a sequence of scopes, outermost first; a  *)
(* scope (an unordered_map) is a total function with Absent where the map   *)
(* has no entry.                                                            *)
(***************************************************************************)
EXTENDS Naturals, Sequences

CONSTANTS
  Key,     \* the identifiers that can be bound
  Value,   \* what an identifier is bound to (the template parameter T)
  Absent   \* stands for "no entry in this map", not a Value

Scope == [Key -> Value \cup {Absent}]
EmptyScope == [k \in Key |-> Absent]

\* The scopes of the stack that hold an entry for k.
Holders(es, k) == {i \in DOMAIN es : es[i][k] # Absent}

Contains(es, k) == Holders(es, k) # {}

\* The current scope has an entry for k: insert() would fail.
InCurrent(es, k) == es[Len(es)][k] # Absent

\* find() walks the stack from the inner to the outer scope: the first hit is
\* the innermost holder.
FindScope(es, k) ==
  CHOOSE i \in Holders(es, k) : \A j \in Holders(es, k) : j <= i

Find(es, k) == es[FindScope(es, k)][k]

\* unordered_map::insert into the current scope: an existing entry stays.
Insert(es, k, v) ==
  IF ~InCurrent(es, k)
  THEN [es EXCEPT ![Len(es)][k] = v]
  ELSE es

\* Mutant: the assignment goes to the current scope.
AssignHere(es, k, v) == [es EXCEPT ![Len(es)][k] = v]

\* An assignment through the iterator that find() returned.
Assign(es, k, v) == [es EXCEPT ![FindScope(es, k)][k] = v]

IsToplevel(es) == Len(es) = 1

PushEnv(es) == Append(es, EmptyScope)

\* pop_env() throws when IsToplevel(es): callers guard it.
PopEnv(es) == SubSeq(es, 1, Len(es) - 1)

Cleared == <<EmptyScope>>
=============================================================================
