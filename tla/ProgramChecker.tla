--------------------------- MODULE ProgramChecker ---------------------------
(***************************************************************************)
(* The SemanticChecker on statements, definitions and items. A check c     *)
(* carries on what the object does between two visits:                     *)
(*   scope     the data of the visible symbols                             *)
(*   declared  those of them that are declared and not defined             *)
(*   structs   the struct objects: name, members, methods                  *)
(*   self      the struct whose method is visited, "" for none                          *)
(*   attrs     m_active_attrs                                              *)
(*   queue     m_annot_queue, the types of one node or expression each     *)
(*   node      the node that was visited last, with its annotations        *)
(*   err       how the check has failed                                    *)
(* The data of a node is appended to it, and behind it its attributes.     *)
(***************************************************************************)
EXTENDS AnnotationQueue, SequencesExt

Begun == [scope |-> <<>>, declared |-> {}, structs |-> <<>>, self |-> "", attrs |-> <<>>,
          queue |-> <<>>, node |-> None, err |-> "none"]

Abort(c, how) == [c EXCEPT !.err = how]
Aborted(c) == c.err # "none"
Continue(c, Rest(_)) == IF Aborted(c) THEN c ELSE Rest(c)
WithData(c, data, Rest(_)) == IF Failed(data) THEN Abort(c, data.how) ELSE Rest(data)

Push(c, types) == [c EXCEPT !.queue = Append(@, types)]
Leave(c, node) == IF Aborted(c) THEN c ELSE [c EXCEPT !.node = node]

(* What a scope added is forgotten behind it; what it defined for an outer one stays defined. *)
InScope(c, Inner(_)) ==
  LET r == Inner(c)
  IN  [r EXCEPT !.scope = [name \in DOMAIN @ \cap DOMAIN c.scope |-> @[name]],
                !.declared = @ \cap DOMAIN c.scope]

AddSymbol(c, name, data) == [c EXCEPT !.scope = [n \in DOMAIN @ \cup {name} |-> IF n = name THEN data ELSE @[n]]]

AddDeclaration(c, name, data) ==
  IF name \notin DOMAIN c.scope THEN [AddSymbol(c, name, data) EXCEPT !.declared = @ \cup {name}]
  ELSE IF name \in c.declared /\ data.kind = "struct" THEN c
  ELSE WithData(c, Agree(c, data, c.scope[name], data), LAMBDA same: c)

AddDefinition(c, name, data) ==
  IF name \notin DOMAIN c.scope THEN AddSymbol(c, name, data)
  ELSE IF name \notin c.declared THEN Abort(c, "diagnostic")
  ELSE WithData(c, Agree(c, data, c.scope[name], data), LAMBDA same: [c EXCEPT !.declared = @ \ {name}])

-----------------------------------------------------------------------------
(* Types *)

Strict(data, Result(_)) ==   \* the first of a sequence of data that failed
  LET bad == {i \in DOMAIN data : Failed(data[i])}
  IN  IF bad = {} THEN Result(data) ELSE data[CHOOSE i \in bad : \A j \in bad : i <= j]

(* Parameters are annotated at once, not by the queue. *)
ParamType(c, param) ==
  On(TypeData(c, param[3]), LAMBDA d: IF Endless(c, d) THEN Fail("overflow") ELSE d)

ParamTypes(c, params) == [i \in 1 .. (Len(params) - 1) |-> ParamType(c, params[i + 1])]

AnnotatedParams(c, params) ==
  <<"List">> \o [i \in 1 .. (Len(params) - 1) |-> Append(params[i + 1], TypeData(c, params[i + 1][3]))]

Signature(c, params, return) ==
  On(TypeData(c, return), LAMBDA r: Strict(ParamTypes(c, params), LAMBDA p: FnType(p, r)))

RECURSIVE BindParams(_, _, _, _)
BindParams(c, params, mutable, i) ==
  IF Aborted(c) \/ i > Len(params) THEN c
  ELSE BindParams(AddDefinition(c, params[i][2], VarType(mutable, TypeData(c, params[i][3]))), params, mutable, i + 1)

(* str2symbol_data() *)
NamedType(c, name) == TypeData(c, <<"TypeName", name>>)

(* An object that is made anew: its name may be that of one that was declared. *)
ObjectFor(c, name) == IF name \in DOMAIN c.structs THEN name \o "_defined" ELSE name
MakeStruct(c, key, object) ==
  [c EXCEPT !.structs = [k \in DOMAIN @ \cup {key} |-> IF k = key THEN object ELSE @[k]]]

(* map::insert() keeps the first of two entries. *)
MemberMap(c, list) ==
  [m \in {list[i][2] : i \in 2 .. Len(list)} |->
     LET first == CHOOSE i \in 2 .. Len(list) : list[i][2] = m /\ \A j \in 2 .. (i - 1) : list[j][2] # m
     IN  VarType(TRUE, TypeData(c, list[first][3]))]

\* Mutant: the method is declared without its parameters.
AddMethodBare(c, key, name, data) ==
  [c EXCEPT !.structs[key].methods =
     [m \in DOMAIN @ \cup {name} |-> IF m \in DOMAIN @ THEN @[m] ELSE FnType(<<>>, data.return)]]

AddMethod(c, key, name, data) ==
  [c EXCEPT !.structs[key].methods =
     [m \in DOMAIN @ \cup {name} |-> IF m \in DOMAIN @ THEN @[m] ELSE data]]

-----------------------------------------------------------------------------
(* Visits *)

RECURSIVE Visit(_, _)

RECURSIVE VisitFrom(_, _, _)
VisitFrom(c, list, i) ==
  IF Aborted(c) THEN c
  ELSE IF i > Len(list) THEN Leave(c, list)
  ELSE Continue(Visit(c, list[i]), LAMBDA r: VisitFrom(r, [list EXCEPT ![i] = r.node], i + 1))

VisitList(c, list) == IF list = None THEN Abort(c, "internal") ELSE VisitFrom(c, list, 2)
VisitBlock(c, list) == InScope(c, LAMBDA q: VisitList(q, list))

VisitOptional(c, node) ==
  IF Aborted(c) THEN c ELSE IF node = None THEN Leave(c, None) ELSE Visit(c, node)

VisitExpr(c, e) ==
  WithData(c, TypeOf(c, e), LAMBDA d: Leave(Push(c, Pushed(c, e)), Annotated(c, e)))

(* handle_condition() looks at what the condition was resolved to. *)
VisitCondition(c, e) ==
  IF Aborted(c) THEN c
  ELSE WithData(c, On(Resolved(c, TypeOf(c, e)), Condition), LAMBDA d: Visit(c, e))

(* What is bound in front of a condition stays visible behind the statement. *)
VisitIf(c, n) ==
  Continue(VisitOptional(c, n[2]), LAMBDA init:
    Continue(VisitCondition(init, n[3]), LAMBDA cond:
      Continue(VisitBlock(cond, n[4]), LAMBDA then:
        Continue(IF n[5] = None THEN Leave(then, None) ELSE VisitBlock(then, n[5]), LAMBDA alt:
          Leave(alt, <<"If", init.node, cond.node, then.node, alt.node>>)))))

(* The expression behind the body is visited in the scope of the body. *)
VisitLoop(c, n) ==
  Continue(VisitOptional(c, n[2]), LAMBDA init:
    Continue(IF n[3] = None THEN Leave(init, None) ELSE VisitCondition(init, n[3]), LAMBDA cond:
      Continue(InScope(cond, LAMBDA q: VisitOptional(VisitList(q, n[5]), n[4])), LAMBDA both:
        Leave(both, <<"Loop", init.node, cond.node, both.node, VisitBlock(cond, n[5]).node>>))))

\* Mutant: nor are the bodies.
VisitSwitchHead(c, n) ==
  Continue(Visit(c, n[2]), LAMBDA cond: Leave(cond, <<"Switch", cond.node, n[3]>>))

(* The clauses of a case are not visited. *)
VisitSwitch(c, n) ==
  Continue(Visit(c, n[2]), LAMBDA cond:
    Continue(VisitList(cond, n[3]), LAMBDA cases: Leave(cases, <<"Switch", cond.node, cases.node>>)))

VisitClauseBody(c, n, at) == Continue(VisitBlock(c, n[at]), LAMBDA r: Leave(r, [n EXCEPT ![at] = r.node]))

(* validate_binding_expr() is in BindingType; the symbol is a variable of what it returns. *)
VisitBinding(c, n) ==
  WithData(c, BindingType(c, n[1], n[3], n[4]), LAMBDA d:
    LET queued == IF n[4] = None THEN c ELSE Push(c, Pushed(c, n[4]))
    IN  Leave(Push(AddDefinition(queued, n[2], VarType(n[1] = "Var", d)), {d}),
              [n EXCEPT ![4] = Annotated(c, @)] \o <<d, c.attrs>>))

(* A name can be used in its own parameters and body: the function is defined before. *)
VisitBody(c, sig, mutable, self) ==
  Continue(InScope(c, LAMBDA q: Continue(BindParams(q, sig[2], mutable, 2), LAMBDA p:
             VisitList([p EXCEPT !.self = self], sig[4]))), LAMBDA body:
    Leave([body EXCEPT !.self = ""], <<sig[1], AnnotatedParams(c, sig[2]), sig[3], body.node>>))

VisitFunction(c, n) ==
  LET sig == n[2]
  IN  WithData(c, Signature(c, sig[2], sig[3]), LAMBDA d:
        Continue(AddDefinition(c, sig[1], d), LAMBDA q:
          Continue(VisitBody(Push(q, {d}), sig, FALSE, ""), LAMBDA r:
            Leave(r, <<"Function", r.node, d, c.attrs>>))))

VisitMethod(c, n) ==
  LET sig == n[3]
  IN  WithData(c, NamedType(c, n[2]), LAMBDA receiver:
        WithData(c, TypeData(c, sig[3]), LAMBDA return:
          IF receiver.kind # "struct" THEN Abort(c, "diagnostic")
          ELSE WithData(c, Signature(c, sig[2], sig[3]), LAMBDA d:
                 Continue(VisitBody(Push(AddMethod(c, receiver.struct, sig[1], d), {d}), sig, TRUE, receiver.struct),
                          LAMBDA r: Leave(r, <<"Method", n[2], r.node, d, c.attrs>>)))))

VisitStruct(c, n) ==
  LET key == ObjectFor(c, n[2])
      Made(q) == MakeStruct(q, key, [name |-> n[2], members |-> MemberMap(q, n[3]), methods |-> <<>>])
  IN  Continue(VisitList(c, n[3]), LAMBDA q:
        Leave(Push(AddDefinition(Made(q), n[2], StructType(key)), {StructType(key)}),
              <<"Struct", n[2], q.node, StructType(key)>>))

VisitEnum(c, n) ==
  WithData(c, IF n[3] = None THEN Native("int") ELSE TypeData(c, n[3]), LAMBDA under:
    LET d == EnumType(n[2], under, {n[4][i][2] : i \in 2 .. Len(n[4])})
    IN  Leave(Push(AddDefinition(c, n[2], d), {d}), Append(n, d)))

(* The object of a name that is known is dropped again. *)
VisitStructDecl(c, n) ==
  LET key == ObjectFor(c, n[2])
      r   == AddDeclaration(MakeStruct(c, key, [name |-> n[2], members |-> <<>>, methods |-> <<>>]), n[2], StructType(key))
  IN  Leave(IF n[2] \in DOMAIN c.scope THEN [r EXCEPT !.structs = c.structs] ELSE r, Append(n, c.attrs))

VisitVariableDecl(c, n) ==
  WithData(c, TypeData(c, n[3]), LAMBDA d:
    Leave(Push(AddDeclaration(c, n[2], VarType(n[1] = "VarDecl", d)), {d}), n \o <<d, c.attrs>>))

VisitFunctionDecl(c, n) ==
  WithData(c, Signature(c, n[3], n[4]), LAMBDA d:
    Leave(Push(AddDeclaration(c, n[2], d), {d}), <<n[1], n[2], AnnotatedParams(c, n[3]), n[4], d, c.attrs>>))

AttributeTypes == {"inline", "deprecated", "export", "extern", "no_codegen", "override_codegen"}

AttributeOf(n) ==
  [type |-> IF n[2] \in AttributeTypes THEN n[2] ELSE "unknown",
   args |-> [i \in 1 .. (Len(n[3]) - 1) |-> n[3][i + 1][2]]]

VisitAttribute(c, n) ==
  IF \E i \in 2 .. Len(n[3]) : n[3][i][1] # "Literal" \/ n[3][i][2] \notin Strings THEN Abort(c, "diagnostic")
  ELSE LET body == VisitList([c EXCEPT !.attrs = Append(@, AttributeOf(n))], n[4])
       IN  Leave([body EXCEPT !.attrs = c.attrs], [n EXCEPT ![4] = body.node])

Visit(c, n) ==
  CASE n = None               -> Abort(c, "internal")
    [] n[1] = "List"          -> VisitList(c, n)
    [] n[1] = "If"            -> VisitIf(c, n)
    [] n[1] = "Loop"          -> VisitLoop(c, n)
    [] n[1] = "Switch"        -> VisitSwitch(c, n)
    [] n[1] = "SwitchCase"    -> VisitClauseBody(c, n, 3)
    [] n[1] = "SwitchElse"    -> VisitClauseBody(c, n, 2)
    [] n[1] = "Return"        -> Continue(Visit(c, n[2]), LAMBDA r: Leave(r, <<"Return", r.node>>))
    [] n[1] = "Let" \/ n[1] = "Var" -> VisitBinding(c, n)
    [] n[1] = "Function"      -> VisitFunction(c, n)
    [] n[1] = "Method"        -> VisitMethod(c, n)
    [] n[1] = "MemberDecl"    -> WithData(c, TypeData(c, n[3]), LAMBDA d: Leave(Push(c, {d}), Append(n, d)))
    [] n[1] = "Struct"        -> VisitStruct(c, n)
    [] n[1] = "Enum"          -> VisitEnum(c, n)
    [] n[1] = "StructDecl"    -> VisitStructDecl(c, n)
    [] n[1] = "LetDecl" \/ n[1] = "VarDecl" -> VisitVariableDecl(c, n)
    [] n[1] = "FunctionDecl"  -> VisitFunctionDecl(c, n)
    [] n[1] = "Attribute"     -> VisitAttribute(c, n)
    [] n[1] \in {"Defer", "Fallthrough", "Continue", "Break", "continue", "break", "Import", "ModuleDecl"} -> Leave(c, n)
    [] OTHER                  -> VisitExpr(c, n)

(* check(): the types of the queue are converted behind the last item; "none" is no error. *)
Check(ast) ==
  Continue(Visit(Begun, ast), LAMBDA c: Abort(c, Drain(c, c.queue)))
=============================================================================
