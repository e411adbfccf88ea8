----------------------------- MODULE CppReading -----------------------------
(***************************************************************************)
(* How C++ reads an expression, as a reference for what the CppBackend     *)
(* writes: postfix before prefix before infix operators, and the infix     *)
(* ones in six levels that associate to the left. Both readings and trees  *)
(* are brought to one form, in which a chain of members, calls and         *)
(* subscripts is a name and the sequence of what is applied to it.         *)
(***************************************************************************)
EXTENDS CppBackend

CppLevels ==
  <<{"||"}, {"&&"}, {"==", "!="}, {"<", "<=", ">", ">="}, {"+", "-"}, {"*", "/", "%"}>>
CppPrefixes == {"*", "&", "+", "-", "!"}
CppMarks == (UNION {CppLevels[k] : k \in DOMAIN CppLevels}) \cup
            {"(", ")", "[", "]", "{", "}", ".", ",", ";", "!", "&", "::", "=", "++", "--"} \cup Raises

Bad == <<"bad">>
Got(node, at) == [node |-> node, at |-> at]
Fits(r) == r.node # Bad
Sees(w, i, marks) == i <= Len(w) /\ w[i] \in marks
IsName(w, i) == i <= Len(w) /\ w[i] \notin CppMarks
Wrong(at) == Got(Bad, at)

(* Something is applied to what may be a chain already. *)
Applied(node, step) ==
  IF node[1] = "chain" THEN <<"chain", node[2], Append(node[3], step)>> ELSE <<"chain", node, <<step>>>>

(* The data of an array stands for its address. *)
Chain(node) ==
  IF node[1] = "chain" /\ node[3] = <<<<"member", <<"m_data">>>>>> THEN <<"prefix", "&", node[2]>> ELSE node

RECURSIVE ReadInfix(_, _, _)
ReadExpr(w, i) == ReadInfix(w, i, 1)

Closing(r, w, mark) == IF Fits(r) /\ Sees(w, r.at, {mark}) THEN Got(r.node, r.at + 1) ELSE Wrong(r.at)

RECURSIVE ReadMoreArgs(_, _, _)
ReadMoreArgs(w, r, args) ==
  IF ~Fits(r) THEN r
  ELSE IF Sees(w, r.at, {","}) THEN ReadMoreArgs(w, ReadExpr(w, r.at + 1), Append(args, r.node))
  ELSE Got(Append(args, r.node), r.at)

ReadArgs(w, i, close) ==
  IF Sees(w, i, {close}) THEN Got(<<>>, i + 1)
  ELSE Closing(ReadMoreArgs(w, ReadExpr(w, i), <<>>), w, close)

ReadCast(w, i) ==
  LET ends == {j \in (i + 2) .. (Len(w) - 1) : w[j] = ">" /\ w[j + 1] = "("}
  IN  IF ends = {} THEN Wrong(i)
      ELSE LET end == CHOOSE j \in ends : \A k \in ends : j <= k
               r == Closing(ReadExpr(w, end + 2), w, ")")
           IN  IF Fits(r) THEN Got(<<"cast", SubSeq(w, i + 2, end - 1), r.node>>, r.at) ELSE r

ReadList(w, i) ==
  LET opens == {j \in i .. Len(w) : w[j] = "{"}
      open  == CHOOSE j \in opens : \A k \in opens : j <= k
      r     == ReadArgs(w, open + 1, "}")
  IN  IF Fits(r) THEN Got(<<"list", SubSeq(w, i + 3, open - 4), r.node>>, r.at + 3) ELSE r

ReadPrimary(w, i) ==
  IF Sees(w, i, {"("}) THEN Closing(ReadExpr(w, i + 1), w, ")")
  ELSE IF Sees(w, i, {"static_cast"}) THEN ReadCast(w, i)
  ELSE IF Sees(w, i, {"InitList"}) THEN ReadList(w, i)
  ELSE IF ~IsName(w, i) THEN Wrong(i)
  ELSE IF Sees(w, i + 1, {"::"}) /\ IsName(w, i + 2) THEN Got(<<"scoped", w[i], w[i + 2]>>, i + 3)
  ELSE Got(<<"name", w[i]>>, i + 1)

RECURSIVE ReadPostfix(_, _)
ReadPostfix(w, r) ==
  LET Step(s, kind) == IF Fits(s) THEN Got(Applied(r.node, <<kind, s.node>>), s.at) ELSE s
  IN  IF ~Fits(r) THEN r
      ELSE IF Sees(w, r.at, {"."})
        THEN IF IsName(w, r.at + 1) THEN ReadPostfix(w, Step(Got(<<w[r.at + 1]>>, r.at + 2), "member")) ELSE Wrong(r.at)
      ELSE IF Sees(w, r.at, {"["}) THEN ReadPostfix(w, Step(Closing(ReadExpr(w, r.at + 1), w, "]"), "index"))
      ELSE IF Sees(w, r.at, {"("}) THEN ReadPostfix(w, Step(ReadArgs(w, r.at + 1, ")"), "call"))
      ELSE Got(Chain(r.node), r.at)

RECURSIVE ReadPrefix(_, _)
ReadPrefix(w, i) ==
  IF Sees(w, i, CppPrefixes)
    THEN LET r == ReadPrefix(w, i + 1) IN IF Fits(r) THEN Got(<<"prefix", w[i], r.node>>, r.at) ELSE r
    ELSE ReadPostfix(w, ReadPrimary(w, i))

RECURSIVE ReadLevel(_, _, _)
ReadLevel(w, left, k) ==
  IF ~Fits(left) \/ ~Sees(w, left.at, CppLevels[k]) THEN left
  ELSE LET right == ReadInfix(w, left.at + 1, k + 1)
       IN  IF Fits(right) THEN ReadLevel(w, Got(<<"infix", w[left.at], left.node, right.node>>, right.at), k) ELSE right

ReadInfix(w, i, k) ==
  IF k > Len(CppLevels) THEN ReadPrefix(w, i) ELSE ReadLevel(w, ReadInfix(w, i, k + 1), k)

(* The expression that a whole sequence of tokens is read as. *)
CppTree(w) == LET r == ReadExpr(w, 1) IN IF r.at = Len(w) + 1 THEN r.node ELSE Bad

-----------------------------------------------------------------------------
(* The same form of a tree of Acris. *)

RECURSIVE Shape(_, _)
RECURSIVE Accessed(_, _, _)

Shapes(structs, list) == [i \in 1 .. (Len(list) - 1) |-> Shape(structs, list[i + 1])]

(* The right hand side of a dot is a chain of its own, that begins with a name. *)
Accessed(structs, left, e) ==
  CASE e[1] = "Identifier" -> Applied(left, <<"member", <<e[2]>>>>)
    [] e[1] \in {"FunctionCall", "MethodCall"} ->
         Applied(Applied(left, <<"member", <<e[2]>>>>), <<"call", Shapes(structs, e[3])>>)
    [] e[1] = "MemberAccess" -> Accessed(structs, Accessed(structs, left, e[2]), e[3])
    [] e[1] = "Subscript"    -> Applied(Accessed(structs, left, e[2]), <<"index", Shape(structs, e[3])>>)
    [] OTHER -> <<"infix", ".", left, Shape(structs, e)>>

Shape(structs, e) ==
  LET Of(part) == Shape(structs, part)
  IN  CASE e[1] \in {"Identifier", "Literal"} -> <<"name", e[2]>>
        [] e[1] = "Self"            -> <<"prefix", "*", <<"name", "this">>>>
        [] e[1] = "ScopeResolution" -> IF e[3][1] = "Identifier" THEN <<"scoped", e[2], e[3][2]>> ELSE <<"scope", e[2], Of(e[3])>>
        [] e[1] \in {"FunctionCall", "MethodCall"} -> Applied(<<"name", e[2]>>, <<"call", Shapes(structs, e[3])>>)
        [] e[1] = "MemberAccess"    -> Accessed(structs, Of(e[2]), e[3])
        [] e[1] = "Subscript"       -> Applied(Of(e[2]), <<"index", Of(e[3])>>)
        [] e[1] \in {"Arithmetic", "Comparison", "And", "Or"} -> <<"infix", e[2], Of(e[3]), Of(e[4])>>
        [] e[1] = "Dereference"     -> <<"prefix", "*", Of(e[2])>>
        [] e[1] = "AddressOf"       -> <<"prefix", "&", Of(e[2])>>
        [] e[1] = "UnaryPrefix"     -> <<"prefix", e[2], Of(e[3])>>
        [] e[1] = "Not"             -> <<"prefix", "!", Of(e[2])>>
        [] e[1] = "ToCast"          -> <<"cast", CppType(structs, Annotation(e, 4)), Of(e[2])>>
        [] e[1] = "ArrayExpr"       -> <<"list", CppType(structs, Annotation(e, 3)), Shapes(structs, e[2])>>
=============================================================================
