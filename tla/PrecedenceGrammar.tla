------------------------- MODULE PrecedenceGrammar -------------------------
(***************************************************************************)
(* What the binding powers mean, without a parser: the ways in which a     *)
(* sequence of tokens can be read as an expression. A reading has its tree *)
(* (parentheses are nodes here), the power its weakest operator on the     *)
(* left edge is found with (low), and the power the operand that is open   *)
(* at its right edge asks of an operator behind it (edge).                 *)
(***************************************************************************)
EXTENDS Pratt, FiniteSets

Closed == 1000

Reading(tree, low, edge) == [tree |-> tree, low |-> low, edge |-> edge]

Least(a, b) == IF a < b THEN a ELSE b

RECURSIVE Readings(_)

Above(w, min) == {r \in Readings(w) : r.low >= min}

(* An operand on the left of an operator must not take the operator for itself. *)
LeftOf(w, power) == {r \in Readings(w) : r.edge > power.left}

RECURSIVE Arguments(_)
Arguments(w) ==
  {<<r.tree>> : r \in Readings(w)} \cup
  UNION {{<<r.tree>> \o rest : r \in Readings(SubSeq(w, 1, i - 1)), rest \in Arguments(SubSeq(w, i + 1, Len(w)))}
           : i \in {j \in 2 .. (Len(w) - 1) : w[j] = ","}}

Lists(w) == {<<"List">> \o args : args \in (IF w = <<>> THEN {<<>>} ELSE Arguments(w))}

Atoms(w) ==
  IF Len(w) # 1 THEN {}
  ELSE IF w[1] \in Identifiers THEN {Reading(<<"Identifier", w[1]>>, Closed, Closed)}
  ELSE IF w[1] \in Literals THEN {Reading(<<"Literal", w[1]>>, Closed, Closed)}
  ELSE {}

Inside(w) == SubSeq(w, 2, Len(w) - 1)

Enclosed(w) ==
  LET n == Len(w) IN
  IF n < 2 THEN {}
  ELSE IF w[1] = "(" /\ w[n] = ")" THEN {Reading(<<"Group", r.tree>>, Closed, Closed) : r \in Readings(Inside(w))}
  ELSE IF w[1] = "[" /\ w[n] = "]" THEN {Reading(<<"ArrayExpr", l>>, Closed, Closed) : l \in Lists(Inside(w))}
  ELSE IF n > 2 /\ w[1] \in Identifiers /\ w[2] = "(" /\ w[n] = ")"
    THEN {Reading(<<"FunctionCall", w[1], l>>, Closed, Closed) : l \in Lists(SubSeq(w, 3, n - 1))}
  ELSE {}

PrefixTree(op, operand) ==
  CASE op = "*" -> <<"Dereference", operand>>
    [] op = "&" -> <<"AddressOf", operand>>
    [] op = "!" -> <<"Not", operand>>
    [] OTHER    -> <<"UnaryPrefix", op, operand>>

Prefixed(w) ==
  IF Len(w) < 2 \/ w[1] \notin DOMAIN PrefixMap THEN {}
  ELSE LET power == PrefixMap[w[1]].right
       IN  {Reading(PrefixTree(w[1], r.tree), Closed, Least(power, r.edge)) : r \in Above(Tail(w), power)}

Binary(w) ==
  UNION {{Reading(<<InfixNode(w[i]), w[i], l.tree, r.tree>>,
                  Least(InfixMap[w[i]].left, l.low), Least(InfixMap[w[i]].right, r.edge))
            : l \in LeftOf(SubSeq(w, 1, i - 1), InfixMap[w[i]]),
              r \in Above(SubSeq(w, i + 1, Len(w)), InfixMap[w[i]].right)}
         : i \in {j \in 2 .. (Len(w) - 1) : w[j] \in DOMAIN InfixMap}}

Accesses(w) ==
  UNION {{Reading(<<"MemberAccess", l.tree, r.tree>>,
                  Least(PostfixMap["."].left, l.low), Least(PostfixMap["."].right, r.edge))
            : l \in LeftOf(SubSeq(w, 1, i - 1), PostfixMap["."]),
              r \in Above(SubSeq(w, i + 1, Len(w)), PostfixMap["."].right)}
         : i \in {j \in 2 .. (Len(w) - 1) : w[j] = "."}}

Subscripts(w) ==
  IF Len(w) < 4 \/ w[Len(w)] # "]" THEN {}
  ELSE UNION {{Reading(<<"Subscript", l.tree, r.tree>>, Least(PostfixMap["["].left, l.low), Closed)
                 : l \in LeftOf(SubSeq(w, 1, i - 1), PostfixMap["["]),
                   r \in Above(SubSeq(w, i + 1, Len(w) - 1), PostfixMap["["].right)}
              : i \in {j \in 2 .. (Len(w) - 2) : w[j] = "["}}

Casts(w) ==
  LET n == Len(w) IN
  IF n < 5 \/ w[n] # ">" \/ w[n - 2] # "<" \/ w[n - 3] # "to" \/ w[n - 1] \notin Builtins \cup Identifiers THEN {}
  ELSE {Reading(<<"ToCast", l.tree, <<"TypeName", w[n - 1]>>>>, Least(PostfixMap["to"].left, l.low), Closed)
          : l \in LeftOf(SubSeq(w, 1, n - 4), PostfixMap["to"])}

Readings(w) ==
  Atoms(w) \cup Enclosed(w) \cup Prefixed(w) \cup Binary(w) \cup Accesses(w) \cup Subscripts(w) \cup Casts(w)
=============================================================================
