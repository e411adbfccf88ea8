------------------------------- MODULE Pratt -------------------------------
(***************************************************************************)
(* PrattParser: expressions by binding powers, with the productions that   *)
(* it asks its delegate, the AcrisParser, for. min is the binding power    *)
(* below which an operator is left to the caller.                          *)
(***************************************************************************)
EXTENDS TypeParser, TLC

Power(left, right) == [left |-> left, right |-> right]

PrefixMap == [op \in {"*", "&"} |-> Power(100, 99)] @@ [op \in {"!", "+", "-"} |-> Power(90, 90)]

Comparisons == {"<", "<=", "==", "!=", ">", ">="}

InfixMap ==
  [op \in {"*", "/", "%"} |-> Power(69, 70)] @@ [op \in {"+", "-"} |-> Power(59, 60)] @@
  [op \in Comparisons |-> Power(50, 50)] @@ ("&&" :> Power(39, 40)) @@ ("||" :> Power(29, 30))

ChainPower == Power(110, 109)
PostfixMap == ("[" :> Power(120, 119)) @@ ("." :> Power(110, 109)) @@ ("to" :> Power(80, 80))

InfixNode(op) == CASE op \in Comparisons -> "Comparison"
                   [] op = "&&" -> "And"
                   [] op = "||" -> "Or"
                   [] OTHER -> "Arithmetic"

RECURSIVE Expr(_, _)
RECURSIVE ChainExpr(_, _)
RECURSIVE Lvalue(_)

FreeExpr(s) == Expr(s, 0)

(* A node is made of what was found; a null pointer and an exception are handed on. *)
Build(r, Node(_)) == IF Found(r) THEN Make(r, Node(r.node)) ELSE r

\* Mutant: operators of equal binding power associate to the right.
BindsLooserOrEqual(power, min) == power.left <= min

(* The operator is left to an expression around this one. *)
BindsLooser(power, min) == power.left < min

(* The right hand side of the operator in front of the cursor, if it binds tightly enough. *)
Rhs(s, power, min, Parse(_)) ==
  IF Raised(s) THEN s
  ELSE IF BindsLooser(power, min) THEN Nothing(Prev(s)) ELSE Required(Parse(s))

RECURSIVE MoreExprs(_, _)
MoreExprs(s, list) ==
  IF ~Raised(s) /\ ~Eos(s) /\ Token(s) = ","
    THEN Then(Required(Expr(NewlineOpt(Advance(s)), 0)), LAMBDA r: MoreExprs(r, Append(list, r.node)))
    ELSE Make(s, list)

ExprListOpt(s) ==
  Then(Expr(s, 0), LAMBDA first:
    MoreExprs(first, IF Found(first) THEN <<"List", first.node>> ELSE <<"List">>))

(* scope_resolution() takes the identifier back if no :: follows. *)
ScopeResolution(s) ==
  OnlyAfter(s, Identifiers, LAMBDA id:
    IfNext(id, {"::"},
           LAMBDA q: Then(Lvalue(q), LAMBDA target:
                       Make(target, <<"ScopeResolution", Token(s), target.node>>)),
           LAMBDA q: Nothing(Prev(q))))

Lvalue(s) ==
  OrElse(ScopeResolution(s), LAMBDA q:
    OnlyAfter(q, Identifiers, LAMBDA id: Make(id, <<"Identifier", Token(q)>>)))

Self(s) ==
  OnlyAfter(s, {"self"}, LAMBDA q:
    IF "METHOD" \in q.ctx THEN Make(q, <<"Self">>) ELSE SyntaxError(q))

(* iota is refused outside of an enum, and not implemented inside. *)
Literal(s) ==
  IfNext(s, Literals, LAMBDA q: Make(q, <<"Literal", Token(s)>>), LAMBDA q:
    IfAt(q, {"["}, LAMBDA p: Build(Surround(p, "[", "]", ExprListOpt),
                                   LAMBDA list: <<"ArrayExpr", list>>),
                   LAMBDA p: IfAt(p, {"iota"}, SyntaxError, Nothing)))

(* The parentheses leave no node. *)
Grouping(s) ==
  IfAt(s, {"("}, LAMBDA q: Surround(q, "(", ")", FreeExpr), Nothing)

PrefixOp(s, ops, Node(_)) ==
  OnlyAfter(s, ops, LAMBDA q: Build(Required(Expr(q, PrefixMap[Token(s)].right)), Node))

AddressOf(s)   == PrefixOp(s, {"&"}, LAMBDA e: <<"AddressOf", e>>)
Dereference(s) == PrefixOp(s, {"*"}, LAMBDA e: <<"Dereference", e>>)
UnaryPrefix(s) == PrefixOp(s, {"+", "-"}, LAMBDA e: <<"UnaryPrefix", Token(s), e>>)
Negation(s)    == PrefixOp(s, {"!"}, LAMBDA e: <<"Not", e>>)

\* Mutant: the name is not taken back.
CallOfForward(s, kind) ==
  OnlyAfter(s, Identifiers, LAMBDA id:
    IfAt(id, {"("}, LAMBDA q: Build(Surround(q, "(", ")", ExprListOpt),
                                    LAMBDA args: <<kind, Token(s), args>>), Nothing))

(* A name is a call if a parenthesis follows; otherwise it is taken back. *)
CallOf(s, kind) ==
  OnlyAfter(s, Identifiers, LAMBDA id:
    IfAt(id, {"("}, LAMBDA q: Build(Surround(q, "(", ")", ExprListOpt),
                                    LAMBDA args: <<kind, Token(s), args>>),
                    LAMBDA q: Nothing(Prev(q))))

FunctionCall(s) == CallOf(s, "FunctionCall")
MethodCall(s)   == CallOf(s, "MethodCall")

Prefix(s) ==
  OrElse(OrElse(OrElse(OrElse(OrElse(OrElse(OrElse(OrElse(
    Self(s), Grouping), AddressOf), Dereference), UnaryPrefix), Negation), Literal), FunctionCall), Lvalue)

MemberAccess(s, min) ==
  IfAfterNewlines(s, {"."}, LAMBDA dot:
    Build(Rhs(Advance(dot), PostfixMap["."], min, LAMBDA q: Expr(q, PostfixMap["."].right)),
          LAMBDA member: <<"MemberAccess", s.node, member>>), Nothing)

Subscript(s, min) ==
  IfAfterNewlines(s, {"["}, LAMBDA open:
    Then(Rhs(Advance(open), PostfixMap["["], min, LAMBDA q: Expr(q, PostfixMap["["].right)),
         LAMBDA index: IF Found(index)
                         THEN Expect(Make(index, <<"Subscript", s.node, index.node>>), {"]"})
                         ELSE index), Nothing)

(* The steps back of a cast that binds too loosely are one more than the steps forward. *)
ToCast(s, min) ==
  IfAfterNewlines(s, {"to"}, LAMBDA to:
    Then(Rhs(Expect(Advance(to), {"<"}), PostfixMap["to"], min, TypeExpr),
         LAMBDA type: IF Found(type)
                        THEN Expect(Make(type, <<"ToCast", s.node, type.node>>), {">"})
                        ELSE Prev(Prev(type))), Nothing)

(* A production of s.node and what follows; the node before is kept if there is none. *)
Postfix(s, min) ==
  LET Again(q) == [q EXCEPT !.node = s.node]
  IN  OrElse(OrElse(OrElse(MemberAccess(s, min),
                           LAMBDA q: Subscript(Again(q), min)),
                    LAMBDA q: ToCast(Again(q), min)),
             Again)

(* arithmetic(), logical() and comparison() begin by asking for the position of the cursor. *)
Infix(s, min) ==
  IF Raised(s) THEN s
  ELSE IF Eos(s) THEN SyntaxError(s)
  ELSE IfAfterNewlines(s, DOMAIN InfixMap, LAMBDA op:
         Build(Rhs(Advance(op), InfixMap[Token(op)], min, LAMBDA q: Expr(q, InfixMap[Token(op)].right)),
               LAMBDA e: <<InfixNode(Token(op)), Token(op), s.node, e>>), Nothing)

(* At most one postfix operator, and then an infix one or the end. *)
RECURSIVE ExprLoop(_, _)
ExprLoop(s, min) ==
  IF Raised(s) \/ ~Found(s) \/ Eos(s) THEN s
  ELSE Then(Postfix(s, min), LAMBDA post:
         Then(Infix(post, min), LAMBDA infix:
           IF Found(infix) THEN ExprLoop(infix, min) ELSE Make(infix, post.node)))

Expr(s, min) == ExprLoop(Prefix(s), min)

Chainable(node) == node[1] \in {"Identifier", "FunctionCall", "MethodCall", "MemberAccess"}

InfixChain(s, min) ==
  IF ~Found(s) \/ ~Chainable(s.node) THEN Nothing(s)
  ELSE IfAfterNewlines(s, {"."}, LAMBDA dot:
         Build(Rhs(Advance(dot), ChainPower, min, LAMBDA q: ChainExpr(q, ChainPower.right)),
               LAMBDA member: <<"MemberAccess", s.node, member>>), Nothing)

RECURSIVE ChainLoop(_, _)
ChainLoop(s, min) ==
  IF Raised(s) \/ Eos(s) THEN s
  ELSE Then(InfixChain(s, min), LAMBDA r:
         IF Found(r) THEN ChainLoop(r, min) ELSE Make(r, s.node))

ChainExpr(s, min) == ChainLoop(OrElse(MethodCall(s), Lvalue), min)

EffectExpr(s) == ChainLoop(OrElse(OrElse(FunctionCall(s), Lvalue), Self), 0)
=============================================================================
