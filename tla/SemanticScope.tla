---------------------------- MODULE SemanticScope ----------------------------
(***************************************************************************)
(* The scoping discipline of semantic::SemanticChecker                     *)
(* (src/src/acris/semantic/semantic_checker.cpp): which symbols the         *)
(* traversal declares, defines, finds and forgets.  A behaviour is one run  *)
(* of check(): the AST is chosen node by node, in the order in which the    *)
(* visitor meets the nodes, and every node kind that touches the            *)
(* environment is an action.  A node with children that are traversed in    *)
(* the middle of its handler (a body) is an Enter action, which pushes a    *)
(* frame for the suspended handler, and a Leave action, its remaining part. *)
(*                                                                         *)
(* Types are opaque: a symbol's data is a member of one of five disjoint    *)
(* sets, and `t_data == symbol.m_data` is equality.                         *)
(***************************************************************************)
EXTENDS Naturals, Sequences, FiniteSets

CONSTANTS
  Name,        \* identifiers of the program
  LetData,     \* data of immutable variables
  VarData,     \* data of mutable variables
  FnData,      \* function signatures
  StructData,  \* struct types
  EnumData,    \* enum types
  Attr,        \* attributes, an identifier with its arguments
  None,        \* "no such child" of an AST node, and an empty map entry
  MaxFrames,   \* bound: nesting depth of the program
  MaxParams    \* bound: parameters of a function or method

Data == LetData \cup VarData \cup FnData \cup StructData \cup EnumData
Symbol == [status : {"declared", "defined"}, data : Data]

ASSUME ScopeAssumption ==
  /\ None \notin Name \cup Data \cup Symbol
  /\ MaxFrames \in Nat
  /\ MaxParams \in Nat

VARIABLES
  envs,          \* m_symbol_state: the stack of scopes
  frames,        \* the suspended handlers, outermost first
  activeAttrs,   \* m_active_attrs
  activeStruct,  \* m_active_struct, None when it is std::nullopt
  status         \* how far check() is: "checking", "done", or how it threw

vars == <<envs, frames, activeAttrs, activeStruct, status>>

Env == INSTANCE EnvState WITH Key <- Name, Value <- Symbol, Absent <- None

\* Kinds of suspended handler; those of ScopeKind have pushed a scope.
ScopeKind == {"function", "method", "then", "else", "loop", "case"}
FrameKind == ScopeKind \cup {"switch", "attribute"}
Frame == [kind : FrameKind, alt : BOOLEAN]

Sym(s, d) == [status |-> s, data |-> d]

-----------------------------------------------------------------------------
(* add_symbol_declaration and add_symbol_definition.  Both look a name up   *)
(* in every scope, not only in the current one.                             *)

CanDeclare(e, n, d) ==
  Env!Contains(e, n) =>
    LET s == Env!Find(e, n)
    IN  \/ s.status = "declared" /\ d \in StructData
        \/ d = s.data

\* Mutant: a declaration replaces what is there.
DeclareAgain(e, n, d) ==
  IF Env!Contains(e, n)
  THEN Env!Assign(e, n, Sym("declared", Env!Find(e, n).data))
  ELSE Env!Insert(e, n, Sym("declared", d))

Declare(e, n, d) ==
  IF Env!Contains(e, n) THEN e ELSE Env!Insert(e, n, Sym("declared", d))

CanDefine(e, n, d) ==
  Env!Contains(e, n) =>
    /\ Env!Find(e, n).status = "declared"
    /\ Env!Find(e, n).data = d

\* Mutant: only the current scope is searched.
DefineHere(e, n, d) ==
  IF Env!InCurrent(e, n)
  THEN Env!Assign(e, n, Sym("defined", d))
  ELSE Env!Insert(e, n, Sym("defined", d))

Define(e, n, d) ==
  IF Env!Contains(e, n)
  THEN Env!Assign(e, n, Sym("defined", Env!Find(e, n).data))
  ELSE Env!Insert(e, n, Sym("defined", d))

\* A list of parameters, each a name and the data of its variable.
ParamList(D) == UNION {[1..k -> Name \X D] : k \in 0..MaxParams}

\* The loop that registers parameters in the scope just pushed.  A second
\* parameter of the same name is a redefinition of the first.
CanBindParams(e, ps) ==
  /\ \A i \in DOMAIN ps : CanDefine(e, ps[i][1], ps[i][2])
  /\ \A i, j \in DOMAIN ps : ps[i][1] = ps[j][1] => i = j

BindParams(e, ps) ==
  LET Bound(n)   == \E i \in DOMAIN ps : ps[i][1] = n
      DataOf(n)  == ps[CHOOSE i \in DOMAIN ps : ps[i][1] = n][2]
      Outer(i)   == [n \in Name |->
                       IF Bound(n) /\ e[i][n] # None
                       THEN Sym("defined", e[i][n].data)
                       ELSE e[i][n]]
      Inner      == [n \in Name |->
                       IF Bound(n) /\ ~Env!Contains(e, n)
                       THEN Sym("defined", DataOf(n))
                       ELSE None]
  IN  Append([i \in 1..Len(e) |-> Outer(i)], Inner)

\* An expression, seen as the one identifier it mentions, or none.
Use == Name \cup {None}
Resolves(e, u) == u # None => Env!Contains(e, u)

\* A type annotation, seen as the user defined type it names, or None for a
\* native type: str2type wants a struct.
IsType(e, t) ==
  t # None => Env!Contains(e, t) /\ Env!Find(e, t).data \in StructData

\* An optional `let`/`var` in front of the condition of an if or a loop.
Binding == {None} \cup (Name \X (LetData \cup VarData))
CanBind(e, b) == b # None => CanDefine(e, b[1], b[2])
Bind(e, b) == IF b = None THEN e ELSE Define(e, b[1], b[2])

-----------------------------------------------------------------------------
Init ==
  /\ envs = Env!Cleared
  /\ frames = <<>>
  /\ activeAttrs = <<>>
  /\ activeStruct = None
  /\ status = "checking"

\* Where the parser admits a node: statements in bodies, items at the top
\* level, items (but no type definition) in an attribute's body.
Top == frames[Len(frames)]
InKind(K) == frames # <<>> /\ Top.kind \in K
AtItem == frames = <<>> \/ InKind({"attribute"})
InBody == InKind(ScopeKind)

\* An exception leaves the checker: the traversal ends here.
Throw(s) ==
  /\ status' = s
  /\ UNCHANGED <<envs, frames, activeAttrs, activeStruct>>

Push(k, alt) == frames' = Append(frames, [kind |-> k, alt |-> alt])
Pop == frames' = SubSeq(frames, 1, Len(frames) - 1)
CanNest == Len(frames) < MaxFrames

\* Let, Var: the initialiser is evaluated before the name is defined.
VisitBinding(n, d, u, t) ==
  /\ status = "checking"
  /\ AtItem \/ InBody
  /\ IF Resolves(envs, u) /\ IsType(envs, t) /\ CanDefine(envs, n, d)
     THEN /\ envs' = Define(envs, n, d)
          /\ UNCHANGED <<frames, activeAttrs, activeStruct, status>>
     ELSE Throw("type_error")

\* LetDecl, VarDecl, FunctionDecl, StructDecl.
VisitDeclaration(n, d, t) ==
  /\ status = "checking"
  /\ AtItem
  /\ IF IsType(envs, t) /\ CanDeclare(envs, n, d)
     THEN /\ envs' = Declare(envs, n, d)
          /\ UNCHANGED <<frames, activeAttrs, activeStruct, status>>
     ELSE Throw("type_error")

\* Struct, Enum: the types of the members come before the name.
VisitTypeDefinition(n, d, t) ==
  /\ status = "checking"
  /\ frames = <<>>
  /\ IF IsType(envs, t) /\ CanDefine(envs, n, d)
     THEN /\ envs' = Define(envs, n, d)
          /\ UNCHANGED <<frames, activeAttrs, activeStruct, status>>
     ELSE Throw("type_error")

\* IdentifierNode, in any expression of a body.
VisitIdentifier(n) ==
  /\ status = "checking"
  /\ InBody
  /\ ~Env!Contains(envs, n)
  /\ Throw("type_error")

\* FunctionCall: SymbolData::as_function is a std::get, which throws
\* bad_variant_access when the name is no function.
VisitCall(n) ==
  /\ status = "checking"
  /\ InBody
  /\ IF ~Env!Contains(envs, n)
     THEN Throw("type_error")
     ELSE /\ Env!Find(envs, n).data \notin FnData
          /\ Throw("stl_error")

\* Self.
VisitSelf ==
  /\ status = "checking"
  /\ InBody
  /\ activeStruct = None
  /\ Throw("stl_error")

\* Function: the name is defined before the body is checked.
EnterFunction(n, d, ps, t) ==
  /\ status = "checking"
  /\ AtItem
  /\ CanNest
  /\ LET e == Define(envs, n, d)
     IN  IF /\ IsType(envs, t)
            /\ CanDefine(envs, n, d)
            /\ CanBindParams(e, ps)
         THEN /\ envs' = BindParams(e, ps)
              /\ Push("function", FALSE)
              /\ UNCHANGED <<activeAttrs, activeStruct, status>>
         ELSE Throw("type_error")

\* Mutant: the receiver may be anything.
EnterMethodAny(r, ps) ==
  /\ status = "checking"
  /\ AtItem
  /\ CanNest
  /\ IF Env!Contains(envs, r) /\ CanBindParams(envs, ps)
     THEN /\ envs' = BindParams(envs, ps)
          /\ Push("method", FALSE)
          /\ activeStruct' = Env!Find(envs, r).data
          /\ UNCHANGED <<activeAttrs, status>>
     ELSE Throw("type_error")

\* Method: str2symbol_data resolves the receiver; the method's own name goes
\* into the struct type and not into the environment.
EnterMethod(r, ps) ==
  /\ status = "checking"
  /\ AtItem
  /\ CanNest
  /\ IF /\ Env!Contains(envs, r)
        /\ Env!Find(envs, r).data \in StructData
        /\ CanBindParams(envs, ps)
     THEN /\ envs' = BindParams(envs, ps)
          /\ Push("method", FALSE)
          /\ activeStruct' = Env!Find(envs, r).data
          /\ UNCHANGED <<activeAttrs, status>>
     ELSE Throw("type_error")

\* If: the optional binding and the condition are checked before the scope
\* of the then branch is pushed.
EnterIf(b, u, alt) ==
  /\ status = "checking"
  /\ InBody
  /\ CanNest
  /\ IF CanBind(envs, b) /\ Resolves(Bind(envs, b), u)
     THEN /\ envs' = Env!PushEnv(Bind(envs, b))
          /\ Push("then", alt)
          /\ UNCHANGED <<activeAttrs, activeStruct, status>>
     ELSE Throw("type_error")

\* Loop.
EnterLoop(b, u) ==
  /\ status = "checking"
  /\ InBody
  /\ CanNest
  /\ IF CanBind(envs, b) /\ Resolves(Bind(envs, b), u)
     THEN /\ envs' = Env!PushEnv(Bind(envs, b))
          /\ Push("loop", FALSE)
          /\ UNCHANGED <<activeAttrs, activeStruct, status>>
     ELSE Throw("type_error")

\* Switch: no scope of its own; its body is a list of cases.
EnterSwitch(u) ==
  /\ status = "checking"
  /\ InBody
  /\ CanNest
  /\ IF Resolves(envs, u)
     THEN /\ Push("switch", FALSE)
          /\ UNCHANGED <<envs, activeAttrs, activeStruct, status>>
     ELSE Throw("type_error")

\* SwitchCase, SwitchElse.
EnterCase ==
  /\ status = "checking"
  /\ InKind({"switch"})
  /\ CanNest
  /\ envs' = Env!PushEnv(envs)
  /\ Push("case", FALSE)
  /\ UNCHANGED <<activeAttrs, activeStruct, status>>

\* Attribute.  Arguments that are no string, here None, are refused.
EnterAttribute(a) ==
  /\ status = "checking"
  /\ AtItem
  /\ CanNest
  /\ IF a # None
     THEN /\ activeAttrs' = Append(activeAttrs, a)
          /\ Push("attribute", FALSE)
          /\ UNCHANGED <<envs, activeStruct, status>>
     ELSE Throw("type_error")

\* pop_env() refuses to drop the last scope.
LeaveScope(keep) ==
  IF Env!IsToplevel(envs)
  THEN Throw("stl_error")
  ELSE /\ envs' = Env!PopEnv(envs)
       /\ keep

LeaveBody ==
  /\ status = "checking"
  /\ InKind({"function", "else", "case"})
  /\ LeaveScope(Pop /\ UNCHANGED <<activeAttrs, activeStruct, status>>)

\* After the then branch, the else branch gets a scope of its own.
LeaveThen ==
  /\ status = "checking"
  /\ InKind({"then"})
  /\ IF Env!IsToplevel(envs)
     THEN Throw("stl_error")
     ELSE IF Top.alt
     THEN /\ envs' = Env!PushEnv(Env!PopEnv(envs))
          /\ frames' = [frames EXCEPT ![Len(frames)] =
                          [kind |-> "else", alt |-> FALSE]]
          /\ UNCHANGED <<activeAttrs, activeStruct, status>>
     ELSE /\ envs' = Env!PopEnv(envs)
          /\ Pop
          /\ UNCHANGED <<activeAttrs, activeStruct, status>>

\* The post expression is checked in the scope of the body.
LeaveLoop(u) ==
  /\ status = "checking"
  /\ InKind({"loop"})
  /\ IF Resolves(envs, u)
     THEN LeaveScope(Pop /\ UNCHANGED <<activeAttrs, activeStruct, status>>)
     ELSE Throw("type_error")

\* Mutant: m_active_struct is not reset.
LeaveMethodKeepsSelf ==
  /\ status = "checking"
  /\ InKind({"method"})
  /\ LeaveScope(Pop /\ UNCHANGED <<activeAttrs, activeStruct, status>>)

LeaveMethod ==
  /\ status = "checking"
  /\ InKind({"method"})
  /\ LeaveScope(/\ Pop
                /\ activeStruct' = None
                /\ UNCHANGED <<activeAttrs, status>>)

\* Mutant: a switch pops the scope it never pushed.
LeaveSwitchPops ==
  /\ status = "checking"
  /\ InKind({"switch"})
  /\ LeaveScope(Pop /\ UNCHANGED <<activeAttrs, activeStruct, status>>)

LeaveSwitch ==
  /\ status = "checking"
  /\ InKind({"switch"})
  /\ Pop
  /\ UNCHANGED <<envs, activeAttrs, activeStruct, status>>

\* Mutant: all attributes are closed, not only the innermost.
LeaveAttributes ==
  /\ status = "checking"
  /\ InKind({"attribute"})
  /\ activeAttrs' = <<>>
  /\ Pop
  /\ UNCHANGED <<envs, activeStruct, status>>

LeaveAttribute ==
  /\ status = "checking"
  /\ InKind({"attribute"})
  /\ activeAttrs' = SubSeq(activeAttrs, 1, Len(activeAttrs) - 1)
  /\ Pop
  /\ UNCHANGED <<envs, activeStruct, status>>

\* The traversal is over: check() clears the environment.
Finish ==
  /\ status = "checking"
  /\ frames = <<>>
  /\ envs' = Env!Cleared
  /\ status' = "done"
  /\ UNCHANGED <<frames, activeAttrs, activeStruct>>

Next ==
  \/ \E n \in Name, d \in LetData \cup VarData, u, t \in Use : VisitBinding(n, d, u, t)
  \/ \E n \in Name, d \in Data \ EnumData, t \in Use : VisitDeclaration(n, d, t)
  \/ \E n \in Name, d \in StructData \cup EnumData, t \in Use : VisitTypeDefinition(n, d, t)
  \/ \E n \in Name : VisitIdentifier(n) \/ VisitCall(n)
  \/ VisitSelf
  \/ \E n \in Name, d \in FnData, ps \in ParamList(LetData), t \in Use :
       EnterFunction(n, d, ps, t)
  \/ \E r \in Name, ps \in ParamList(VarData) : EnterMethod(r, ps)
  \/ \E b \in Binding, u \in Use, alt \in BOOLEAN : EnterIf(b, u, alt)
  \/ \E b \in Binding, u \in Use : EnterLoop(b, u)
  \/ \E u \in Use : EnterSwitch(u) \/ LeaveLoop(u)
  \/ EnterCase
  \/ \E a \in Attr \cup {None} : EnterAttribute(a)
  \/ LeaveBody \/ LeaveThen \/ LeaveMethod \/ LeaveSwitch \/ LeaveAttribute
  \/ Finish

Spec == Init /\ [][Next]_vars

-----------------------------------------------------------------------------
(* Properties. *)

TypeOK ==
  /\ envs \in Seq(Env!Scope)
  /\ frames \in Seq(Frame)
  /\ activeAttrs \in Seq(Attr)
  /\ activeStruct \in StructData \cup {None}
  /\ status \in {"checking", "done", "type_error", "stl_error"}

\* No name is bound in two scopes of the stack: find() searches all of them
\* before anything is inserted, so what a lookup returns never depends on
\* which scope it happens to look in first.
NoShadowing ==
  \A n \in Name : \A i, j \in Env!Holders(envs, n) : i = j

\* Every suspended handler that pushed a scope still owns exactly one, and
\* nobody else does: each pop_env() removes the scope its own handler pushed
\* and the toplevel scope is never popped.
ScopeFrames == {i \in DOMAIN frames : frames[i].kind \in ScopeKind}
ScopesMatchFrames == Len(envs) = Cardinality(ScopeFrames) + 1

\* m_active_struct is set exactly while the body of a method is checked, so
\* `self` resolves in a method, in all of its nested statements, and nowhere
\* else.
SelfOnlyInMethod ==
  status = "checking" =>
    (activeStruct # None <=> \E i \in DOMAIN frames : frames[i].kind = "method")

\* m_active_attrs holds one entry for each attribute whose body is being
\* checked: no item is annotated with an attribute that was closed before it.
AttributesMatchFrames ==
  Len(activeAttrs) = Cardinality({i \in DOMAIN frames : frames[i].kind = "attribute"})

\* While its scope is open a symbol is never forgotten, never changes its data
\* and never goes back from defined to declared.
SymbolsStay ==
  status' = "checking" =>
    \A i \in DOMAIN envs \cap DOMAIN envs', n \in Name :
      (/\ envs[i][n] # None
       /\ \/ i < Len(envs)
          \/ frames' = frames
          \/ Len(frames') > Len(frames))
      => /\ envs'[i][n] # None
         /\ envs'[i][n].data = envs[i][n].data
         /\ envs[i][n].status = "defined" => envs'[i][n].status = "defined"

SymbolsArePermanent == [][SymbolsStay]_vars

\* The checker keeps the promise of ScopedTable: a name means one thing at a
\* time, and a binding lives exactly until the scope it was made in closes.
Table == INSTANCE ScopedTable WITH
  table <- [n \in Name |-> IF Env!Contains(envs, n) THEN Env!Find(envs, n) ELSE None],
  level <- [n \in Name |-> IF Env!Contains(envs, n) THEN Env!FindScope(envs, n) ELSE 0],
  depth <- Len(envs)

ImplementsTable == Table!Spec
=============================================================================
