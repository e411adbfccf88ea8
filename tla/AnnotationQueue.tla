-------------------------- MODULE AnnotationQueue --------------------------
(***************************************************************************)
(* AnnotationQueue and what the SemanticChecker pushes to it: the types    *)
(* of the nodes it visits. A node gets its type appended when the queue is *)
(* drained, behind the last item of the program. The parts of an           *)
(* expression that are not visited keep the type of a new node.            *)
(***************************************************************************)
EXTENDS ExpressionChecker

(* TypeVariant m_type{}: the first alternative, and the first enumerator. *)
DefaultType == Native("void")

TypeAnnotated == {"Identifier", "Subscript", "ScopeResolution", "Arithmetic", "Assignment",
                  "Comparison", "AddressOf", "ToCast", "ArrayExpr"}

(* Where a node has the expressions that are visited with it. *)
VisitedAt(e) ==
  CASE e[1] = "List" -> 2 .. Len(e)
    [] e[1] \in {"Arithmetic", "Comparison", "And", "Or", "Assignment"} -> {3, 4}
    [] e[1] \in {"FunctionCall", "UnaryPrefix"} -> {3}
    [] e[1] \in {"MemberAccess", "Subscript", "AddressOf", "Dereference", "ToCast", "Not",
                 "Increment", "Decrement"} -> {2}
    [] OTHER -> {}

RECURSIVE Annotated(_, _)
Annotated(c, e) ==
  IF e = None THEN None
  ELSE LET inner == IF e[1] = "ArrayExpr" THEN [e EXCEPT ![2][2] = Annotated(c, @)]
                    ELSE [i \in DOMAIN e |-> IF i \in VisitedAt(e) THEN Annotated(c, e[i]) ELSE e[i]]
       IN  IF e[1] \in TypeAnnotated THEN Append(inner, TypeOf(c, e)) ELSE inner

RECURSIVE Pushed(_, _)
Pushed(c, e) ==
  IF e = None THEN {}
  ELSE (IF e[1] \in TypeAnnotated THEN {TypeOf(c, e)} ELSE {}) \cup
       (IF e[1] = "ArrayExpr" THEN Pushed(c, e[2][2]) ELSE UNION {Pushed(c, e[i]) : i \in VisitedAt(e)})

RECURSIVE Unset(_)
Unset(d) ==
  CASE d.kind = "monostate" -> TRUE
    [] d.kind = "var"   -> Unset(d.type)
    [] d.kind = "ptr"   -> Unset(d.to)
    [] d.kind = "array" -> Unset(d.elem)
    [] OTHER -> FALSE

(* type_variant() of all that was pushed, in the order of the queue; each entry is a set of types. *)
ConversionError(c, types) ==
  IF \E d \in types : Unset(d) THEN "internal"
  ELSE IF \E d \in types : Endless(c, d) THEN "overflow" ELSE "none"

Drain(c, queue) ==
  LET bad == {i \in DOMAIN queue : ConversionError(c, queue[i]) # "none"}
  IN  IF bad = {} THEN "none" ELSE ConversionError(c, queue[CHOOSE i \in bad : \A j \in bad : i <= j])
=============================================================================
