---------------------------- MODULE Expressions ----------------------------
(***************************************************************************)
(* The way of one expression through the compiler: it is written behind a  *)
(* return, phrase by phrase, parsed as the JumpStatement does, checked and   *)
(* annotated, and emitted as C++.                                          *)
(***************************************************************************)
EXTENDS AcrisParser, AnnotationQueue, CppReading, PrecedenceGrammar

CONSTANTS
  Languages,      \* for each language, the phrases an expression is written with and (bound) its length
  Scope, Structs, \* the symbols that are visible, and the structs among them
  BoundTypes      \* the types a variable is bound with, as trees

VARIABLES language, tokens, stage, tree, type, code

vars == <<language, tokens, stage, tree, type, code>>

Context == [scope |-> Scope, structs |-> Structs, self |-> ""]

(* The statement, with the semicolon that ends it. *)
Parsed(w) == Production("jump", Begin(<<"return">> \o w \o <<";">>))

(* The parser has no objection but that the tokens end. *)
Viable(w) == Production("jump", Begin(<<"return">> \o w)).err = "eos"

Init ==
  /\ language \in DOMAIN Languages
  /\ tokens = <<>>
  /\ stage = "writing"
  /\ tree = None
  /\ type = Monostate
  /\ code = <<>>

Write(phrase) ==
  /\ stage = "writing" /\ Len(tokens) + Len(phrase) <= Languages[language].length
  /\ Viable(tokens)
  /\ tokens' = tokens \o phrase
  /\ UNCHANGED <<language, stage, tree, type, code>>

Read ==
  /\ stage = "writing"
  /\ \E s \in {Parsed(tokens)} :
         IF ~Raised(s) /\ Found(s) /\ Eos(s)
           THEN stage' = "parsed" /\ tree' = s.node[2]
           ELSE stage' = "refused" /\ UNCHANGED tree
  /\ UNCHANGED <<language, tokens, type, code>>

(* Nothing is returned by a return without an expression, which the checker does not expect. *)
Check ==
  /\ stage = "parsed"
  /\ type' = TypeOf(Context, tree)
  /\ stage' = IF Failed(type') THEN "rejected" ELSE "checked"
  /\ UNCHANGED <<language, tokens, tree, code>>

Generate ==
  /\ stage = "checked"
  /\ code' = Code(Structs, Annotated(Context, tree), FALSE)
  /\ stage' = "emitted"
  /\ UNCHANGED <<language, tokens, tree, type>>

Next == (\E p \in Languages[language].phrases : Write(p)) \/ Read \/ Check \/ Generate

Spec == Init /\ [][Next]_vars

-----------------------------------------------------------------------------
(* What was written and what was understood *)

Marks == {"(", ")", ",", Newline}
Unmarked(w) == SelectSeq(w, LAMBDA t: t \notin Marks)

RECURSIVE TypeYield(_)
TypeYield(t) ==
  CASE t[1] = "TypeName" -> <<t[2]>>
    [] t[1] = "Pointer"  -> [i \in 1 .. t[2] |-> "*"] \o (IF t[3] THEN <<"readonly">> ELSE <<>>) \o TypeYield(t[4])
    [] t[1] = "Array"    -> <<"[">> \o TypeYield(t[2]) \o <<";", t[3], "]">>

RECURSIVE Yield(_)
Yield(e) ==
  LET YieldOf(list) == Commas([i \in 1 .. (Len(list) - 1) |-> Yield(list[i + 1])])
  IN  CASE e[1] \in {"Identifier", "Literal"} -> <<e[2]>>
        [] e[1] = "Self"            -> <<"self">>
        [] e[1] = "ScopeResolution" -> <<e[2], "::">> \o Yield(e[3])
        [] e[1] \in {"FunctionCall", "MethodCall"} -> <<e[2]>> \o YieldOf(e[3])
        [] e[1] = "ArrayExpr"       -> <<"[">> \o YieldOf(e[2]) \o <<"]">>
        [] e[1] = "MemberAccess"    -> Yield(e[2]) \o <<".">> \o Yield(e[3])
        [] e[1] = "Subscript"       -> Yield(e[2]) \o <<"[">> \o Yield(e[3]) \o <<"]">>
        [] e[1] = "AddressOf"       -> <<"&">> \o Yield(e[2])
        [] e[1] = "Dereference"     -> <<"*">> \o Yield(e[2])
        [] e[1] = "Not"             -> <<"!">> \o Yield(e[2])
        [] e[1] = "UnaryPrefix"     -> <<e[2]>> \o Yield(e[3])
        [] e[1] = "ToCast"          -> Yield(e[2]) \o <<"to", "<">> \o TypeYield(e[3]) \o <<">">>
        [] OTHER                    -> Yield(e[3]) \o <<e[2]>> \o Yield(e[4])

Understood == stage \notin {"writing", "refused"} /\ tree # None

Count(w, t) == Cardinality({i \in DOMAIN w : w[i] = t})

(* Whether all casts that were written have become nodes. *)
CastsKept == Count(Yield(tree), "to") = Count(tokens, "to")

(* The tree of an expression that the parser accepts holds every token but parentheses, commas and line *)
(* breaks, in their order, for all the places where the cursor is moved back; only a cast that binds more *)
(* loosely than what it stands behind can get lost (prev() twice behind three steps, to_cast()). *)
TokensKept == Understood /\ CastsKept => Unmarked(Yield(tree)) = Unmarked(tokens)

-----------------------------------------------------------------------------
(* The table of binding powers *)

InfixKinds   == {"Arithmetic", "Comparison", "And", "Or"}
PrefixKinds  == {"AddressOf", "Dereference", "UnaryPrefix", "Not"}
PostfixKinds == {"MemberAccess", "Subscript", "ToCast"}

(* Where a node has its operands. *)
OperandsAt(e) ==
  CASE e[1] \in InfixKinds -> {3, 4}
    [] e[1] \in {"MemberAccess", "Subscript"} -> {2, 3}
    [] e[1] \in {"AddressOf", "Dereference", "Not", "ToCast", "ArrayExpr", "Group"} -> {2}
    [] e[1] \in {"UnaryPrefix", "FunctionCall"} -> {3}
    [] e[1] = "List" -> 2 .. Len(e)
    [] OTHER -> {}

RECURSIVE Strip(_)
Strip(e) ==
  IF e[1] = "Group" THEN Strip(e[2])
  ELSE [i \in DOMAIN e |-> IF i \in OperandsAt(e) THEN Strip(e[i]) ELSE e[i]]

(* A node and all that is below it. *)
RECURSIVE Within(_)
Within(e) == {e} \cup UNION {Within(e[i]) : i \in OperandsAt(e)}

(* A postfix operator behind another one, or behind the operand of a prefix operator. *)
Stalls(e) == \E n \in Within(e) : n[1] \in PostfixKinds /\ n[2][1] \in PostfixKinds \cup PrefixKinds

EmptyGroup == \E i \in 1 .. (Len(tokens) - 1) : tokens[i] = "(" /\ tokens[i + 1] = ")"
(* A cast behind an operator that binds more tightly: the cursor is moved back once too often, and a token *)
(* in front of the cast, such as a closing parenthesis, is read a second time. *)
CastTakenBack == \E i, j \in DOMAIN tokens : i < j /\ tokens[i] \in {"-", "+", "!", "*", "&", ".", "["} /\ tokens[j] = "to"
LeadingComma == \E i \in 1 .. (Len(tokens) - 1) : tokens[i] \in {"(", "["} /\ tokens[i + 1] = ","

(* The parser gives an expression the tree that the binding powers of its operators define, and no tree if *)
(* they define none. The exceptions are those of a loop that takes one postfix operator at most: if one *)
(* stands behind another, or behind a prefix operator, the expression is refused or read in another way. *)
(* On the other hand nothing may stand in parentheses, or in front of the first comma of a list, and a *)
(* cast that is taken back may stand in for what is missing. *)
FollowsTable ==
  stage \notin {"writing"} /\ Newline \notin {tokens[i] : i \in DOMAIN tokens} =>
    LET readings == Readings(tokens)
    IN  /\ \A r \in readings :
             IF Stalls(r.tree) THEN Understood => tree # Strip(r.tree)
             ELSE Understood /\ tree = Strip(r.tree)
        /\ Understood /\ readings = {} => EmptyGroup \/ LeadingComma \/ CastTakenBack

-----------------------------------------------------------------------------
(* Types *)

Accepts(data) == ~Failed(data)
HidesVariable(data) == Accepts(data) /\ Contents(Context, data) # Contents(Context, ResultType(Context, data))

(* A variable can be bound to what can be assigned to it, whether that is done where it is declared or *)
(* later, although two functions of the validator decide about that; a constant can be too, unless the *)
(* value is a variable of another type than an integer, or an array of variables: let does not look *)
(* behind a variable. *)
BindingsAgree ==
  Understood =>
    \A t \in BoundTypes :
      LET value    == TypeOf(Context, tree)
          assigned == Assigned(Context, VarType(TRUE, TypeData(Context, t)), Resolved(Context, value))
      IN  /\ Accepts(BindingType(Context, "Var", t, tree)) = Accepts(assigned)
          /\ Accepts(BindingType(Context, "Let", t, tree)) = (Accepts(assigned) /\ (HidesVariable(value) => NativeType(value) \cap Integers12 # {}))

-----------------------------------------------------------------------------
(* C++ *)

Emitted == stage = "emitted"
Throws(w) == \E i \in DOMAIN w : w[i] \in Raises

(* The operands that come without parentheses of their own. *)
Bare(e) == e[1] \in InfixKinds
Loose(e) == Bare(e) \/ e[1] \in {"Dereference", "AddressOf"}

(* What is in front of the dots, calls and subscripts of a chain. *)
RECURSIVE First(_)
First(e) == IF e[1] \in {"MemberAccess", "Subscript"} THEN First(e[2]) ELSE e

KeepsStructure(e) ==
  \A n \in Within(e) :
    /\ n[1] \in {"UnaryPrefix", "Not"} => ~Bare(n[Len(n)])
    /\ n[1] \in {"Subscript", "MemberAccess"} => ~Loose(n[2])
    /\ n[1] = "MemberAccess" => First(n[3])[1] \in {"Identifier", "FunctionCall", "MethodCall"}

(* The C++ compiler reads what is emitted for an expression as the tree it was emitted for, whatever the *)
(* binding powers of C++, except where the operand of a sign or a negation is an infix expression, or *)
(* that of a subscript or a dot one with an operator in front, or where what follows a dot is no name. *)
CppKeepsStructure ==
  Emitted /\ ~Throws(code) =>
    (CppTree(code) = Shape(Structs, Annotated(Context, tree))) <=> KeepsStructure(tree)

(* The comment of visit(Arithmetic): the sub expressions are surrounded by parentheses to enforce the *)
(* precedence of Acris over C++. *)
CppKeepsPrecedence ==
  Emitted /\ (\A n \in Within(tree) : n[1] \in InfixKinds \cup {"UnaryPrefix", "Not", "Identifier", "Literal"}) =>
    CppTree(code) = Shape(Structs, Annotated(Context, tree))

(* An address that is taken of a function, or where the checker does not look. *)
HiddenAddress ==
  \E i \in 1 .. (Len(tokens) - 1) :
    /\ tokens[i] = "&"
    /\ \/ tokens[i + 1] \in DOMAIN Scope /\ Scope[tokens[i + 1]].kind # "var"
       \/ \E j \in 1 .. (i - 1) : tokens[j] \in {"[", "."}

FloatingPoint == \E i \in DOMAIN tokens : tokens[i] \in Floats \cup {"f32", "f64"}

(* What passes the checker can be emitted: code generation fails for floating point types only, and for *)
(* the address of a function or of a name in a place that the checker does not visit, such as an index. *)
AcceptedIsEmitted == Emitted /\ Throws(code) => HiddenAddress \/ FloatingPoint
=============================================================================
