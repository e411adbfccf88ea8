------------------------- MODULE ExpressionChecker -------------------------
(***************************************************************************)
(* The SemanticChecker on expressions, with the SemanticValidator and the  *)
(* TypeNodeEvaluator. TypeOf(c, e) is what visiting e returns. A part that *)
(* is missing in the tree is a null pointer, which traverse() refuses.     *)
(***************************************************************************)
EXTENDS TokenStream, SymbolTypes

CONSTANTS Floats, Chars, Strings,     \* among OtherLiterals; the rest are truth values
          IntegerValue                \* the value of a literal of Integer

Natives == Integers12 \cup {"void", "f32", "f64", "char", "cstr", "bool"}

RECURSIVE TypeOf(_, _)

TypeOfList(c, list) == [i \in 1 .. (Len(list) - 1) |-> Resolved(c, TypeOf(c, list[i + 1]))]

(* evaluate(): a native type or the object of a struct. *)
RECURSIVE TypeData(_, _)
TypeData(c, type) ==
  IF type = None THEN Fail("internal")
  ELSE CASE type[1] = "Pointer" -> On(TypeData(c, type[4]), LAMBDA to: PointerType(to, type[2], type[3]))
         [] type[1] = "Array"   -> On(TypeData(c, type[2]), LAMBDA elem: ArrayType(elem, IntegerValue[type[3]]))
         [] OTHER -> IF type[2] \in Natives THEN Native(type[2])
                     ELSE IF type[2] \in DOMAIN c.scope /\ c.scope[type[2]].kind = "struct"
                       THEN c.scope[type[2]] ELSE Fail("diagnostic")

-----------------------------------------------------------------------------
(* SemanticValidator *)

Promoted(lhs, rhs, mode) ==
  UNION {Promote(l, r, mode) : l \in NativeType(lhs), r \in NativeType(rhs)}

Condition(data) ==
  Known(data, LAMBDA d:
    IF d.kind = "ptr" \/ NativeType(d) \cap (Integers12 \cup {"bool"}) # {}
      THEN Native("bool") ELSE Fail("diagnostic"))

Arithmetic(c, lhs, rhs) ==
  Known(lhs, LAMBDA l: Known(rhs, LAMBDA r:
    LET peak == Promoted(l, r, "PEAK")
    IN  IF peak # {} THEN Native(CHOOSE t \in peak : TRUE) ELSE Agree(c, l, r, l)))

Comparison(c, lhs, rhs) ==
  On(Resolved(c, lhs), LAMBDA l: On(Resolved(c, rhs), LAMBDA r:
    IF Promoted(l, r, "PEAK") # {} THEN Native("bool") ELSE Agree(c, l, r, Native("bool"))))

\* Mutant: the assignment promotes to the wider of the two types.
AssignedPeak(c, lhs, expr) ==
  Known(lhs, LAMBDA l: Known(expr, LAMBDA e:
    IF ~IsMutable(l) THEN Fail("diagnostic")
    ELSE IF Promoted(l, e, "PEAK") # {} THEN l
    ELSE Agree(c, ResultType(c, l), ResultType(c, e), l)))

(* The right hand side is resolved already, the left hand side is the result. *)
Assigned(c, lhs, expr) ==
  Known(lhs, LAMBDA l: Known(expr, LAMBDA e:
    IF ~IsMutable(l) THEN Fail("diagnostic")
    ELSE IF Promoted(l, e, "PROMOTE_TO_LHS") # {} THEN l
    ELSE Agree(c, ResultType(c, l), ResultType(c, e), l)))

(* validate_binding_expr(): an optional type, and the optional type of the expression. *)
Binding(c, type, init) ==
  CASE type # {} /\ init # {} ->
         LET t == CHOOSE d \in type : TRUE
             i == CHOOSE d \in init : TRUE
             agreed == Agree(c, t, i, t)
         IN  IF ~Failed(agreed) \/ agreed.how = "overflow" THEN agreed
             ELSE Known(i, LAMBDA k: IF Promoted(t, k, "PROMOTE_TO_LHS") # {}
                                       THEN Native(CHOOSE n \in NativeType(t) : TRUE) ELSE agreed)
    [] type = {} /\ init = {} -> Fail("internal")
    [] OTHER -> CHOOSE d \in type \cup init : TRUE

(* Let takes the type of its expression as it is, Var without its variables. *)
BindingType(c, kind, type, init) ==
  LET value == IF kind = "Let" THEN TypeOf(c, init) ELSE Resolved(c, TypeOf(c, init))
      given == TypeData(c, type)
  IN  IF init # None /\ Failed(value) THEN value
      ELSE IF type # None /\ Failed(given) THEN given
      ELSE Binding(c, IF type = None THEN {} ELSE {given}, IF init = None THEN {} ELSE {value})

-----------------------------------------------------------------------------
(* SemanticChecker *)

Visible(c, name) == IF name \in DOMAIN c.scope THEN c.scope[name] ELSE Fail("diagnostic")

Call(c, name, list) ==
  LET args == TypeOfList(c, list)
      bad  == {i \in DOMAIN args : Failed(args[i])}
  IN  On(Visible(c, name), LAMBDA fn:
        IF bad # {} THEN args[CHOOSE i \in bad : \A j \in bad : i <= j]
        ELSE IF fn.kind # "fn" THEN Fail("standard")
        ELSE IF Len(args) # Len(fn.params) THEN Fail("diagnostic")
        ELSE LET checks == [i \in DOMAIN args |-> Agree(c, args[i], fn.params[i], fn.return)]
                 wrong  == {i \in DOMAIN args : Failed(checks[i])}
             IN  IF wrong # {} THEN checks[CHOOSE i \in wrong : \A j \in wrong : i <= j] ELSE fn.return)

(* The index is not looked at: the left operand is visited in its place. *)
ElementOf(data) ==
  CASE data.kind = "array" -> data.elem
    [] data.kind = "ptr"   -> IF data.depth > 1 THEN [data EXCEPT !.depth = @ - 1] ELSE data.to
    [] OTHER               -> Fail("diagnostic")

(* An array decays to a pointer to its elements. *)
AddressType(c, left) ==
  On(Resolved(c, left), LAMBDA d:
    PointerType(IF d.kind = "array" THEN d.elem ELSE d, 1, ~IsMutable(left)))

Member(c, left, right) ==
  On(Resolved(c, left), LAMBDA d:
    IF d.kind # "struct" THEN Fail("diagnostic")
    ELSE LET members == c.structs[d.struct].members
             methods == c.structs[d.struct].methods
         IN  CASE right[1] = "Identifier" ->
                    IF right[2] \in DOMAIN members THEN members[right[2]] ELSE Fail("diagnostic")
               [] right[1] = "FunctionCall" ->
                    IF right[2] \in d.methods THEN methods[right[2]].return ELSE Fail("diagnostic")
               [] OTHER -> Native("int"))

Stepped(data) ==
  IF data.kind = "ptr" THEN data.to
  ELSE Known(data, LAMBDA d: IF NativeType(d) \cap Integers12 = {} THEN Fail("diagnostic")
                             ELSE Native(CHOOSE n \in NativeType(d) : TRUE))

(* A name that is no enumeration is not refused: its type stays unset. *)
ScopedField(c, scope, target) ==
  IF scope \notin DOMAIN c.scope \/ c.scope[scope].kind # "enum" THEN Monostate
  ELSE IF target[1] = "Identifier" /\ target[2] \in c.scope[scope].fields THEN c.scope[scope]
  ELSE Fail(IF target[1] = "Identifier" THEN "diagnostic" ELSE "standard")

LiteralType(token) ==
  CASE token \in Integer -> Native("int")
    [] token \in Floats  -> Native("f64")
    [] token \in Chars   -> Native("char")
    [] token \in Strings -> PointerType(Native("char"), 1, TRUE)
    [] OTHER             -> Native("bool")

OperatorType(c, e, Type(_)) ==
  LET Both(Check(_, _)) == On(Type(e[Len(e) - 1]), LAMBDA l: On(Type(e[Len(e)]), LAMBDA r: Check(l, r)))
  IN  CASE e[1] = "Arithmetic" -> Both(LAMBDA l, r: Arithmetic(c, l, r))
        [] e[1] = "Comparison" -> Both(LAMBDA l, r: Comparison(c, l, r))
        [] e[1] = "Assignment" -> On(Type(e[3]), LAMBDA l: On(Resolved(c, Type(e[4])), LAMBDA r: Assigned(c, l, r)))
        [] e[1] \in {"And", "Or"} -> Both(LAMBDA l, r: On(Condition(l), LAMBDA b: Condition(r)))
        [] e[1] \in {"Increment", "Decrement"} -> On(Type(e[2]), Stepped)

ArrayData(c, list) ==
  IF Len(list) = 1 THEN Fail("internal")
  ELSE On(TypeOf(c, list[2]), LAMBDA d: ArrayType(d, Len(list) - 1))

TypeOf(c, e) ==
  LET Type(part) == TypeOf(c, part)
  IN  IF e = None THEN Fail("internal")
      ELSE CASE e[1] = "Identifier"      -> Visible(c, e[2])
             [] e[1] = "Literal"         -> LiteralType(e[2])
             [] e[1] = "ArrayExpr"       -> ArrayData(c, e[2])
             [] e[1] = "Self"            -> IF c.self = "" THEN Fail("internal") ELSE StructType(c.self)
             [] e[1] = "ScopeResolution" -> ScopedField(c, e[2], e[3])
             [] e[1] = "FunctionCall"    -> Call(c, e[2], e[3])
             [] e[1] = "MemberAccess"    -> On(Type(e[2]), LAMBDA l: Member(c, l, e[3]))
             [] e[1] = "Subscript"       -> On(Resolved(c, Type(e[2])), ElementOf)
             [] e[1] = "AddressOf"       -> On(Type(e[2]), LAMBDA l: AddressType(c, l))
             [] e[1] = "Dereference"     -> On(Resolved(c, Type(e[2])), LAMBDA d:
                                              IF d.kind = "ptr" THEN d.to ELSE Fail("standard"))
             [] e[1] = "UnaryPrefix"     -> Type(e[3])
             [] e[1] = "ToCast"          -> On(Type(e[2]), LAMBDA l: TypeData(c, e[3]))
             [] e[1] = "Not"             -> On(Type(e[2]), Condition)
             [] OTHER                    -> OperatorType(c, e, Type)
=============================================================================
