---------------------------- MODULE AcrisParser ----------------------------
(***************************************************************************)
(* AcrisParser: statements, definitions and items by recursive descent.    *)
(* A list is a tuple that begins with its name; a part that is missing in  *)
(* the tree is None.                                                       *)
(***************************************************************************)
EXTENDS Pratt

RECURSIVE Statements(_, _)

(* The productions that others are made of are asked for by name, in the end of this module. *)
RECURSIVE Production(_, _)

ExprOpt(s) == Production("expr", s)

Id(s) == Expect(s, Identifiers)

(* A ContextGuard: what the construct sets is cleared behind it, whatever was set before. *)
InContext(s, context, Inner(_)) ==
  Then(s, LAMBDA q: LET r == Inner([q EXCEPT !.ctx = @ \cup {context}])
                    IN  [r EXCEPT !.ctx = @ \ {context}])

(* An optional token and what stands behind it. *)
Optional(s, types, Rest(_)) == IfNext(s, types, Rest, Nothing)

-----------------------------------------------------------------------------
(* Statements *)

Body(s) ==
  IfAfterNewlines(s, {"{"}, LAMBDA open:
    Expect(Production("statements", NewlineOpt(Advance(open))), {"}"}), Nothing)

(* init_expr(): the type, then the expression, and neither is checked to be there. *)
InitExpr(s, keyword, kind) ==
  LET Value(q) == ExprOpt(NewlineOpt(q))
      Binding(q, name, type) == Make(q, <<kind, name, type, q.node>>)
  IN  OnlyAfter(s, {keyword}, LAMBDA k: Then(Id(k), LAMBDA id:
        IfNext(id, {":"},
          LAMBDA q: Then(TypeExpr(q), LAMBDA type:
            IfNext(type, {"="}, LAMBDA v: Binding(Value(v), Token(k), type.node),
                                LAMBDA v: IF keyword = "let" THEN SyntaxError(v)
                                          ELSE Binding(Nothing(v), Token(k), type.node))),
          LAMBDA q: Binding(Value(Expect(q, {"="})), Token(k), None))))

BindingExpr(s) == OrElse(InitExpr(s, "var", "Var"), LAMBDA q: InitExpr(q, "let", "Let"))

(* eval_expr() returns a pair: what is bound before a semicolon, and the condition. *)
EvalExpr(s) ==
  Then(BindingExpr(s), LAMBDA binding:
    Then(ExprOpt(IF Found(binding) THEN Expect(binding, {";"}) ELSE binding), LAMBDA cond:
      Make(cond, <<binding.node, cond.node>>)))

AssignOps == {"=", "+=", "-=", "*=", "/=", "%="}

(* Everything is parsed again as an effect if it turns out to be no assignment. *)
Assignment(s) ==
  Guarded(s, Then(ExprOpt(s), LAMBDA left:
    IF ~Found(left) THEN left
    ELSE IfAt(left, AssignOps,
           LAMBDA q: Build(ExprOpt(NewlineOpt(Advance(q))),
                           LAMBDA e: <<"Assignment", Token(q), left.node, e>>),
           LAMBDA q: OnlyAfter(q, {"++", "--"}, LAMBDA p:
                       Make(p, <<IF Token(q) = "++" THEN "Increment" ELSE "Decrement", left.node>>)))))

Terminated(s) == IF Found(s) THEN Terminator(s) ELSE s

ResultStatement(s) ==
  Terminated(OrElse(OrElse(OrElse(FunctionCall(s), BindingExpr), Assignment), EffectExpr))

ExprStatement(s) == Terminated(ExprOpt(s))

Defer(s) ==
  Then(OrElse(Body(s), LAMBDA q: Build(ExprStatement(q), LAMBDA e: <<"List", e>>)), LAMBDA deferred:
    Make(deferred, <<"Defer", IF Found(deferred) THEN deferred.node ELSE <<"List">>>>))

JumpStatement(s) ==
  LET Jump(q) == IF "LOOP" \in q.ctx
                   THEN Make(Terminator(Advance(q)), <<Token(q)>>) ELSE SyntaxError(q)
      Return(q) == Then(ExprOpt(q), LAMBDA value: Make(Terminator(value), <<"Return", value.node>>))
  IN  IfAt(s, {"continue", "break"}, Jump, LAMBDA q:
        IfNext(q, {"defer"}, Defer, LAMBDA p: OnlyAfter(p, {"return"}, Return)))

(* A loop or an if without a body is not an error. *)
LoopStatement(s) ==
  OnlyAfter(s, {"loop"}, LAMBDA q: Then(EvalExpr(q), LAMBDA eval:
    Then(Optional(eval, {";"}, Assignment), LAMBDA post:
      Then(InContext(post, "LOOP", Body), LAMBDA body:
        Make(body, <<"Loop", eval.node[1], eval.node[2], post.node, body.node>>)))))

RECURSIVE BranchStatement(_, _)
BranchStatement(s, keyword) ==
  OnlyAfter(s, {keyword}, LAMBDA q: Then(EvalExpr(q), LAMBDA eval:
    Then(IF eval.node[2] = None THEN SyntaxError(eval) ELSE Body(eval), LAMBDA then:
      Then(IfNext(then, {"else"}, Body, LAMBDA p:
             Build(BranchStatement(p, "elif"), LAMBDA elif: <<"List", elif>>)), LAMBDA alt:
        Make(alt, <<"If", eval.node[1], eval.node[2], then.node, alt.node>>)))))

(* The comma between two clauses may be left out. *)
RECURSIVE CaseClauses(_, _)
CaseClauses(s, list) ==
  IF Raised(s) THEN s
  ELSE IF Eos(s) THEN Make(s, list)
  ELSE Then(ScopeResolution(s), LAMBDA clause:
         IF ~Found(clause) THEN Make(clause, list)
         ELSE CaseClauses(IfNext(NewlineOpt(clause), {","}, LAMBDA q: q, LAMBDA q: q), Append(list, clause.node)))

CaseBody(s) == Production("statements", NewlineOpt(Expect(s, {":"})))

SwitchCase(s) ==
  OnlyAfter(s, {"case"}, LAMBDA q: Then(CaseClauses(q, <<"List">>), LAMBDA clauses:
    IF clauses.node = <<"List">> THEN SyntaxError(clauses)
    ELSE Then(CaseBody(clauses), LAMBDA body:
           IfNext(body, {"fallthrough"},
             LAMBDA p: Make(NewlineOpt(p), <<"SwitchCase", clauses.node,
                                             Append(body.node, <<"Fallthrough">>), TRUE>>),
             LAMBDA p: Make(p, <<"SwitchCase", clauses.node, body.node, FALSE>>)))))

SwitchElse(s) ==
  OnlyAfter(s, {"else"}, LAMBDA q: Build(CaseBody(q), LAMBDA body: <<"SwitchElse", body>>))

RECURSIVE SwitchCases(_, _)
SwitchCases(s, list) ==
  IF Raised(s) THEN s
  ELSE IF Eos(s) THEN Make(s, list)
  ELSE Then(OrElse(SwitchCase(s), SwitchElse), LAMBDA r:
         IF Found(r) THEN SwitchCases(NewlineOpt(r), Append(list, r.node)) ELSE Make(r, list))

SwitchStatement(s) ==
  OnlyAfter(s, {"switch"}, LAMBDA q:
    Then(ExprOpt(q), LAMBDA cond:
      Then(SwitchCases(NewlineOpt(Expect(NewlineOpt(cond), {"{"})), <<"List">>), LAMBDA cases:
        Make(Expect(NewlineOpt(cases), {"}"}), <<"Switch", cond.node, cases.node>>))))

Statement(s) ==
  OrElse(OrElse(OrElse(OrElse(OrElse(OrElse(
    Terminated(BindingExpr(s)), ResultStatement), LAMBDA q: BranchStatement(q, "if")),
    SwitchStatement), LoopStatement), JumpStatement), Body)

(* statement_list(): list_of() stops at the first production that returns null. *)
Statements(s, list) ==
  IF Raised(s) THEN s
  ELSE IF Eos(s) THEN Make(s, list)
  ELSE Then(Statement(s), LAMBDA r:
         IF Found(r) THEN Statements(NewlineOpt(r), Append(list, r.node)) ELSE Make(r, list))

-----------------------------------------------------------------------------
(* Definitions *)

EnumField(s) ==
  OnlyAfter(s, Identifiers, LAMBDA id:
    Then(Optional(id, {"="}, ExprOpt), LAMBDA value: Make(value, <<"EnumField", Token(s), value.node>>)))

(* A comma is consumed also when no field stands before it, and ends the list. *)
RECURSIVE EnumFields(_, _)
EnumFields(s, list) ==
  IF Raised(s) THEN s
  ELSE IF Eos(s) THEN Make(s, list)
  ELSE Then(EnumField(s), LAMBDA field:
         Then(IfNext(field, {","}, NewlineOpt, LAMBDA q: IfAt(q, {"}"}, LAMBDA p: p, SyntaxError)), LAMBDA behind:
           IF ~Found(field) THEN Make(behind, list) ELSE EnumFields(behind, Append(list, field.node))))

EnumDef(s) ==
  OnlyAfter(s, {"enum"}, LAMBDA q:
    Then(Optional(NewlineOpt(Id(q)), {":"}, TypeExpr), LAMBDA type:
      Build(InContext(type, "ENUM", LAMBDA p:
              Surround(p, "{", "}", LAMBDA o: EnumFields(NewlineOpt(o), <<"List">>))),
            LAMBDA fields: <<"Enum", Token(q), type.node, fields>>)))

(* Members, parameters and declared variables: a name, a colon, and a type that may be missing. *)
Typed(s, kind) ==
  Then(TypeExpr(Expect(Id(s), {":"})), LAMBDA q: Make(q, <<kind, Token(s), q.node>>))

RECURSIVE Members(_, _)
Members(s, list) ==
  IF ~Raised(s) /\ ~Eos(s) /\ Token(s) \in Identifiers
    THEN Then(Typed(s, "MemberDecl"), LAMBDA member: Members(Terminator(member), Append(list, member.node)))
    ELSE Make(s, list)

StructDef(s) ==
  OnlyAfter(s, {"struct"}, LAMBDA q:
    Build(Surround(NewlineOpt(Id(q)), "{", "}", LAMBDA o: Members(NewlineOpt(o), <<"List">>)),
          LAMBDA members: <<"Struct", Token(q), members>>))

RECURSIVE MoreParams(_, _)
MoreParams(s, list) ==
  IF ~Raised(s) /\ ~Eos(s) /\ Token(s) = ","
    THEN Then(Typed(Advance(s), "Parameter"), LAMBDA param: MoreParams(param, Append(list, param.node)))
    ELSE Make(s, list)

ParamListOpt(s) ==
  IfAt(s, Identifiers, LAMBDA q: Then(Typed(q, "Parameter"), LAMBDA first: MoreParams(first, <<"List", first.node>>)),
                       LAMBDA q: Make(q, <<"List">>))

Params(s) == Surround(s, "(", ")", ParamListOpt)

(* An arrow without a type is given back. *)
ReturnTypeOpt(s) ==
  IfAfterNewlines(s, {"->"}, LAMBDA arrow:
    OrElse(TypeExpr(Advance(arrow)), Prev), Nothing)

Function(s) ==
  LET Signature(q, Inner(_)) ==    \* the parameters, the return type and the body of a name
        Then(Params(Id(q)), LAMBDA params: Then(ReturnTypeOpt(params), LAMBDA return:
          Then(Required(Inner(return)), LAMBDA body:
            Make(body, <<Token(q), params.node, return.node, body.node>>))))
      Method(q) ==
        Then(Id(q), LAMBDA receiver:
          Build(Signature(Expect(receiver, {")"}), LAMBDA r: InContext(r, "METHOD", Body)),
                LAMBDA sig: <<"Method", Token(q), sig>>))
  IN  OnlyAfter(s, {"func"}, LAMBDA q:
        IfNext(q, {"("}, Method, LAMBDA p:
          Build(Signature(p, Body), LAMBDA sig: <<"Function", sig>>)))

Declare(s) ==
  OnlyAfter(s, {"declare"}, LAMBDA q:
    IfNext(q, {"struct"}, LAMBDA k: Then(Id(k), LAMBDA id: Make(id, <<"StructDecl", Token(k)>>)), LAMBDA k:
    IfNext(k, {"func"}, LAMBDA n: Then(Params(Id(n)), LAMBDA params:
        Build(Required(ReturnTypeOpt(params)), LAMBDA return:
          <<"FunctionDecl", Token(n), params.node, return>>)), LAMBDA n:
    IfNext(n, {"let"}, LAMBDA v: Typed(v, "LetDecl"), LAMBDA v:
    IfNext(v, {"var"}, LAMBDA w: Typed(w, "VarDecl"), SyntaxError)))))

-----------------------------------------------------------------------------
(* Items *)

RECURSIVE MoreLiterals(_, _)
MoreLiterals(s, list) ==
  IF ~Raised(s) /\ ~Eos(s) /\ Token(s) = ","
    THEN Then(Required(Production("literal", Advance(s))), LAMBDA r: MoreLiterals(r, Append(list, r.node)))
    ELSE Make(s, list)

LiteralList(s) == Then(Required(Production("literal", s)), LAMBDA first: MoreLiterals(first, <<"List", first.node>>))

RECURSIVE AttributeItems(_, _)
AttributeItems(s, list) ==
  IF Raised(s) THEN s
  ELSE IF Eos(s) THEN Make(s, list)
  ELSE Then(Production("attribute item", s), LAMBDA r:
         IF Found(r) THEN AttributeItems(NewlineOpt(r), Append(list, r.node)) ELSE Make(r, list))

AttributeBody(s) ==
  IfNext(s, {"{"},
    LAMBDA q: Expect(NewlineOpt(AttributeItems(NewlineOpt(q), <<"List">>)), {"}"}),
    LAMBDA q: NewlineOpt(Build(Required(Production("attribute item", q)), LAMBDA item: <<"List", item>>)))

Attribute(s) ==
  OnlyAfter(s, {"[["}, LAMBDA q: Then(Id(q), LAMBDA id:
    Then(IfNext(id, {"("}, LAMBDA p: Expect(LiteralList(p), {")"}), LAMBDA p: Make(p, <<"List">>)), LAMBDA params:
      Build(AttributeBody(NewlineOpt(Expect(params, {"]]"}))), LAMBDA body:
        <<"Attribute", Token(q), params.node, body>>))))

AttributeItem(s) == OrElse(OrElse(OrElse(Attribute(s), Declare), BindingExpr), Function)

ImportExpr(s, Other(_)) ==
  IfNext(s, {"path"}, LAMBDA q: q, LAMBDA q:
    IfNext(q, Identifiers, LAMBDA p: Expect(Expect(p, {"="}), {"path"}), Other))

RECURSIVE Imports(_)
Imports(s) ==
  IF Raised(s) \/ Eos(s) THEN s
  ELSE CASE Token(s) = ";" -> Imports(ImportExpr(Terminator(s), SyntaxError))
         [] Token(s) = Newline -> LET q == NewlineOpt(s)
                                      r == ImportExpr(q, LAMBDA p: p)
                                  IN  IF ~Raised(r) /\ r.at = q.at THEN q ELSE Imports(r)
         [] OTHER -> s

Import(s) ==
  OnlyAfter(s, {"import"}, LAMBDA q:
    Make(IfNext(q, {"path"}, LAMBDA p: p, LAMBDA p:
           IfNext(p, {"("}, LAMBDA open:
             Expect(Imports(ImportExpr(NewlineOpt(open), SyntaxError)), {")"}), SyntaxError)),
         <<"Import">>))

Item(s) ==
  OrElse(OrElse(OrElse(OrElse(OrElse(OrElse(
    Import(s), Declare), Attribute), StructDef), EnumDef), BindingExpr), Function)

RECURSIVE Items(_, _)
Items(s, list) ==
  Then(NewlineOpt(s), LAMBDA q:
    IF Eos(q) THEN Make(q, list)
    ELSE Then(Item(q), LAMBDA r: IF Found(r) THEN Items(r, Append(list, r.node)) ELSE Make(r, list)))

Program(s) ==
  OrElse(OnlyAfter(s, {"module"}, LAMBDA q: Then(Id(q), LAMBDA id:
           Items(id, <<"List", <<"ModuleDecl", Token(q)>>>>))), SyntaxError)

Production(name, s) ==
  CASE name = "expr"       -> FreeExpr(s)
    [] name = "statements" -> Statements(s, <<"List">>)
    [] name = "literal"    -> Literal(s)
    [] name = "attribute item" -> AttributeItem(s)
    [] name = "jump"       -> JumpStatement(s)
    [] name = "program"    -> Program(s)

Parse(tokens) ==
  Then(Production("program", Begin(tokens)), LAMBDA s: IF Eos(s) THEN s ELSE SyntaxError(s))
=============================================================================
