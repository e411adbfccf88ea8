---------------------------- MODULE ParserContext ----------------------------
(***************************************************************************)
(* The contexts of parser::acris::AcrisParser                              *)
(* (src/src/acris/parser/acris/acris_parser.cpp and context/): which        *)
(* keywords the recursive descent admits where.  A behaviour parses one     *)
(* program, given as the constructs and keywords in the order in which the  *)
(* parser meets them; the call stack is the sequence of open constructs.    *)
(* A ContextGuard sets a flag where it is constructed and clears it where   *)
(* it is destroyed, when the construct closes or an exception unwinds it.   *)
(***************************************************************************)
EXTENDS Naturals, Sequences, SequencesExt

CONSTANT MaxDepth   \* bound: nesting of constructs

ASSUME ParserAssumption == MaxDepth \in Nat

VARIABLES
  store,   \* m_store: the contexts that are set
  open,    \* the constructs being parsed, outermost first
  status   \* "parsing", "done" or "syntax_error"

vars == <<store, open, status>>

Context == {"ENUM", "METHOD", "LOOP"}

\* Constructs whose content is parsed under a guard, and the context it sets.
Guard == [enum |-> "ENUM", method |-> "METHOD", loop |-> "LOOP"]
Guarded(k) == k \in DOMAIN Guard

Items == {"enum", "method", "function", "attribute"}
Statements == {"loop", "branch", "case", "defer", "block"}
Bodies == {"method", "function"} \cup Statements

Init ==
  /\ store = [c \in Context |-> FALSE]
  /\ open = <<>>
  /\ status = "parsing"

Parsing == status = "parsing"
InAny(K) == open # <<>> /\ Last(open) \in K
AtItem == open = <<>> \/ InAny({"attribute"})

\* What admits a construct: an attribute has no type definition in it.
Admits(k) ==
  \/ k \in Items \ {"enum"} /\ AtItem
  \/ k = "enum" /\ open = <<>>
  \/ k \in Statements /\ InAny(Bodies)

\* The construct begins; its guard, if it has one, is constructed.
Enter(k) ==
  /\ Parsing
  /\ Len(open) < MaxDepth
  /\ Admits(k)
  /\ open' = Append(open, k)
  /\ store' = IF Guarded(k) THEN [store EXCEPT ![Guard[k]] = TRUE] ELSE store
  /\ UNCHANGED status

\* Mutant: the guard is never destroyed.
LeaveOpen ==
  /\ Parsing
  /\ open # <<>>
  /\ open' = Front(open)
  /\ UNCHANGED <<store, status>>

\* Mutant: the store is reset, not the context of the guard.
LeaveReset ==
  /\ Parsing
  /\ open # <<>>
  /\ open' = Front(open)
  /\ store' = [c \in Context |-> FALSE]
  /\ UNCHANGED status

\* The construct ends; the destructor of its guard clears the context, whatever
\* it was before.
Leave ==
  /\ Parsing
  /\ open # <<>>
  /\ open' = Front(open)
  /\ store' = IF Guarded(Last(open))
              THEN [store EXCEPT ![Guard[Last(open)]] = FALSE]
              ELSE store
  /\ UNCHANGED status

\* A syntax error unwinds every open construct.
Reject ==
  /\ open' = <<>>
  /\ store' = [c \in Context |->
                 store[c] /\ ~\E i \in DOMAIN open :
                                Guarded(open[i]) /\ Guard[open[i]] = c]
  /\ status' = "syntax_error"

Check(c) == IF store[c] THEN UNCHANGED vars ELSE Reject

\* `break` and `continue`.
Jump == Parsing /\ InAny(Bodies) /\ Check("LOOP")

\* `self`, in an expression of a body, or of a binding at the top level.
Self == Parsing /\ (AtItem \/ InAny(Bodies \cup {"enum"})) /\ Check("METHOD")

\* `iota` is checked, and rejected for not being implemented.
Iota == Parsing /\ (AtItem \/ InAny(Bodies \cup {"enum"})) /\ Reject

\* Anything else the grammar does not admit.
Malformed == Parsing /\ Reject

Done ==
  /\ Parsing
  /\ open = <<>>
  /\ status' = "done"
  /\ UNCHANGED <<store, open>>

Next ==
  \/ \E k \in Items \cup Statements : Enter(k)
  \/ Leave \/ Jump \/ Self \/ Iota \/ Malformed \/ Done

Spec == Init /\ [][Next]_vars

-----------------------------------------------------------------------------
(* Properties. *)

Inside(k) == k \in Range(open)

TypeOK ==
  /\ store \in [Context -> BOOLEAN]
  /\ open \in Seq(Items \cup Statements)
  /\ status \in {"parsing", "done", "syntax_error"}

\* No context survives what it was set for, neither at the end of the
\* construct nor when an exception leaves it: a `break` behind a loop, or a
\* `self` in the function behind a method, is never admitted.
NoStaleContext ==
  \A k \in DOMAIN Guard : store[Guard[k]] => Inside(k)

\* In a method `self` is admitted wherever it occurs: guards of other contexts,
\* opened and closed inside of its body, do not disturb it.
SelfInMethods == Inside("method") => store["METHOD"]

\* "Keyword used outside of proper context" (acris_parser.cpp:29) is only said
\* of keywords that are: inside of a loop, `break` is admitted.
JumpsInLoops == Inside("loop") => store["LOOP"]
=============================================================================
