----------------------------- MODULE MirBuilder -----------------------------
(***************************************************************************)
(* mir_builder::MirBuilder (src/src/acris/mir/mir_builder/mir_builder.cpp): *)
(* the translation of an AST into basic blocks of SSA instructions.  A      *)
(* behaviour translates one module, statement by statement, in the order in *)
(* which the visitor meets them.  The statements are those of programs the  *)
(* semantic checker has accepted: `visible` holds the names its scopes      *)
(* would hold, a use is of a visible name and a binding of a new one.       *)
(***************************************************************************)
EXTENDS MirFactory, FiniteSets

\* The programs that are translated: the kinds of statements and expressions and
\* the names that occur, and bounds for the nesting of statements, the statements
\* and the functions of a module.
CONSTANT Profiles

ASSUME MirAssumption ==
  /\ \A p \in Profiles : {p.frames, p.stmts, p.fns} \subseteq Nat /\ p.names \subseteq Name
  /\ IsFiniteSet(Name)
  /\ None \notin Site

VARIABLES
  profile,   \* the kind of program that is translated
  mir,       \* m_factory, with the blocks of the last function
  globals,   \* m_global_map
  frames,    \* the suspended visits, outermost first
  visible,   \* the names in scope, a set for each scope of the checker
  count,     \* functions and statements visited, for the bounds
  status,    \* "module", "function", "done", or why translate() threw
  taken      \* history: names that post expressions have taken from their bodies

mirVars == <<mir, globals, frames, visible, count, status>>
vars == <<profile, mirVars, taken>>

Features == profile.features

Init ==
  /\ profile \in Profiles
  /\ mir = Empty
  /\ globals = {}
  /\ frames = <<>>
  /\ visible = <<{}>>
  /\ count = [fns |-> 0, stmts |-> 0]
  /\ status = "module"
  /\ taken = {}

InScope == UNION Range(visible)
Locals == InScope \ globals
Fresh == profile.names \ InScope

-----------------------------------------------------------------------------
(* Expressions.  Those with operands take names for them.                   *)

\* The opcodes of arithmetic and comparison.  A power is a sum.
Opcode ==
  [power |-> "IADD", product |-> "IMUL", quotient |-> "IDIV", remainder |-> "IMOD",
   sum |-> "IADD", difference |-> "ISUB", less |-> "ICMP_LT", atMost |-> "ICMP_LTE",
   equal |-> "ICMP_EQ", unequal |-> "ICMP_NE", more |-> "ICMP_GT", atLeast |-> "ICMP_GTE"]

\* The literals of the types that to_opcode() knows; it throws for others.
LiteralOpcode == [lit |-> "CONST_INT", flag |-> "CONST_BOOL", real |-> "CONST_FLOAT"]

ExprsOver(names) ==
  [kind : {"lit"} \cup (DOMAIN LiteralOpcode \cap Features)]
  \cup [kind : {"name", "neg", "not", "call"} \cap Features, left : names]
  \cup [kind : ({"and", "or"} \cup DOMAIN Opcode) \cap Features,
         left : names, right : names]
Exprs == ExprsOver(InScope)

Ref(m, n) == VariableRef(m, n, globals)

\* And, Or: the blocks of the two terms and the one in which they meet.
Logic(m, e) ==
  LET leftBlock  == LastBlock(m) + 1
      rightBlock == LastBlock(m) + 2
      mergeBlock == LastBlock(m) + 3
      targets == IF e.kind = "and"
                 THEN <<Lab(rightBlock), Lab(mergeBlock)>>
                 ELSE <<Lab(mergeBlock), Lab(rightBlock)>>
      left  == Ref(AddBlock(AddInstr(m, "JUMP", <<Lab(leftBlock)>>)), e.left)
      cjmp  == Emit(left, "COND_JUMP", <<V(LastVar(left))>> \o targets)
      right == Ref(AddBlock(cjmp), e.right)
      short == Emit(AddBlock(right), "CONST_BOOL", <<Lit>>)
      phi   == Emit(short, "PHI", <<V(LastVar(cjmp)), V(LastVar(right)), V(LastVar(short))>>)
  IN  InsertJump(InsertJump(phi, leftBlock, mergeBlock), rightBlock, mergeBlock)

Eval(m, e) ==
  CASE e.kind \in DOMAIN LiteralOpcode -> Emit(m, LiteralOpcode[e.kind], <<Lit>>)
    [] e.kind = "name" -> Ref(m, e.left)
    [] e.kind = "neg"  -> LET left == Ref(m, e.left)
                          IN  Emit(left, "ISUB", <<Lit, V(LastVar(left))>>)
    [] e.kind \in DOMAIN Opcode ->
         LET left == Ref(m, e.left)
             right == Ref(left, e.right)
         IN  Emit(right, Opcode[e.kind], <<V(LastVar(left)), V(LastVar(right))>>)
    \* visit(Not*) emits nothing.
    [] e.kind = "not"  -> m
    \* get_call_args makes a vector of as many nulls as there are arguments and
    \* appends the arguments.  The call has no result.
    [] e.kind = "call" -> LET arg == Ref(m, e.left)
                          IN  AddInstr(arg, "CALL", <<Fn, Null, V(LastVar(arg))>>)
    [] OTHER -> Logic(m, e)

-----------------------------------------------------------------------------
Throw(s) ==
  /\ status' = s
  /\ UNCHANGED <<mir, globals, frames, visible, count>>

Stmt(feature) ==
  /\ status = "function"
  /\ feature \in Features
  /\ count.stmts < profile.stmts

Counted == count' = [count EXCEPT !.stmts = @ + 1]

\* A statement without a body leaves the factory m behind.
Emits(m) ==
  /\ mir' = m
  /\ Counted
  /\ UNCHANGED <<globals, frames, visible, status>>

\* Mutant: last_var() instead of require_last_var().
WithAnyValue(m, then) == then

\* What follows require_last_var() when it is called on m.
WithValue(m, then) == IF LastVar(m) # 0 THEN then ELSE Throw("no_value")

\* LetDecl, VarDecl of the module.
DeclareGlobal(n) ==
  /\ status = "module"
  /\ "global" \in Features
  /\ n \in Fresh
  /\ globals' = globals \cup {n}
  /\ visible' = [visible EXCEPT ![1] = @ \cup {n}]
  /\ UNCHANGED <<mir, frames, count, status>>

\* Function, up to its body, with at most one parameter.
EnterFunction(p) ==
  /\ status = "module"
  /\ count.fns < profile.fns
  /\ p = None \/ "parameter" \in Features
  /\ LET entry == AddBlock([PushEnv(mir) EXCEPT !.blocks = <<>>, !.params = {}])
         param == CreateVar([entry EXCEPT !.params = {entry.next}])
     IN  mir' = IF p = None THEN entry ELSE VarBind(param, p, entry.next)
  /\ visible' = Append(visible, {p} \ {None})
  /\ count' = [count EXCEPT !.fns = @ + 1]
  /\ status' = "function"
  /\ UNCHANGED <<globals, frames>>

LeaveFunction ==
  /\ status = "function"
  /\ frames = <<>>
  /\ mir' = PopEnv(mir)
  /\ visible' = Front(visible)
  /\ status' = "module"
  /\ UNCHANGED <<globals, frames, count>>

Finish ==
  /\ status = "module"
  /\ count.fns > 0
  /\ Throw("done")

\* Let, Var.
VisitBinding(n, e) ==
  /\ Stmt("let")
  /\ n \in Fresh
  /\ LET m == Eval(mir, e)
     IN  WithValue(m, IF CanBind(m, n)
                      THEN /\ mir' = VarBind(m, n, LastVar(m))
                           /\ visible' = [visible EXCEPT ![Len(visible)] = @ \cup {n}]
                           /\ Counted
                           /\ UNCHANGED <<globals, frames, status>>
                      ELSE Throw("not_inserted"))

\* MirEnvState::update looks for the name among the locals.
Updates(m, n, v) ==
  IF Knows(m, n) THEN Emits(AddUpdate(m, n, v)) ELSE Throw("not_defined")

\* Assignment, REGULAR: the result variable is created and not used.
VisitAssign(n, e) ==
  /\ Stmt("assign")
  /\ n \in InScope
  /\ LET m == Eval(CreateVar(mir), e) IN WithValue(m, Updates(m, n, LastVar(m)))

\* Mutant: the result goes into the variable that was read.
ComputeInPlace(m, n, e, op) ==
  LET right == Eval(CreateVar(m), e)
      left == Ref(right, n)
  IN  SetResult(AddInstr(left, Opcode[op], <<V(LastVar(left)), V(LastVar(right))>>),
                LastVar(left))

\* Assignment with an operator: the result variable is created first, and
\* MODULO does not update the name.
CompoundOps == {"product", "quotient", "remainder", "sum", "difference"} \cap Features

Compute(m, n, e, op) ==
  LET right == Eval(CreateVar(m), e)
      left == Ref(right, n)
  IN  SetResult(AddInstr(left, Opcode[op], <<V(LastVar(left)), V(LastVar(right))>>),
                m.next)

VisitCompound(n, e, op) ==
  /\ Stmt("compound")
  /\ n \in InScope
  /\ WithValue(Eval(CreateVar(mir), e),
               LET m == Compute(mir, n, e, op)
               IN  IF op = "remainder" THEN Emits(m) ELSE Updates(m, n, mir.next))

\* Increment, Decrement.
VisitIncrement(n, op) ==
  /\ Stmt("increment")
  /\ n \in InScope
  /\ LET m == Ref(mir, n) IN Emits(AddInstr(m, Opcode[op], <<V(LastVar(m)), Lit>>))

\* An expression for its effect.
VisitCall(e) ==
  /\ Stmt("call")
  /\ e.kind = "call"
  /\ Emits(Eval(mir, e))

VisitReturn(e) ==
  /\ Stmt("return")
  /\ IF e = None
     THEN Emits(AddInstr(mir, "RETURN", <<>>))
     ELSE LET m == Eval(mir, e)
          IN  WithValue(m, Emits(AddInstr(m, "RETURN", <<V(LastVar(m))>>)))

\* Continue, Break.
VisitJump(op) ==
  /\ Stmt("jump")
  /\ \E i \in DOMAIN frames : frames[i].kind = "loop"
  /\ Emits(AddInstr(mir, op, <<>>))

\* Defer: the block is not visited.
VisitDefer == Stmt("defer") /\ Emits(mir)

-----------------------------------------------------------------------------
(* Statements with a body.                                                 *)

Push(f) ==
  /\ Len(frames) < profile.frames
  /\ frames' = Append(frames, f)
  /\ visible' = Append(visible, {})

Top == Last(frames)
Leaves(kind) == status = "function" /\ frames # <<>> /\ Top.kind = kind
Pop == frames' = Front(frames) /\ visible' = Front(visible)

\* If, up to its first branch.  (An init expression is a binding in front.)
EnterIf(c, alt) ==
  /\ Stmt(IF alt THEN "else" ELSE "if")
  /\ Len(frames) < profile.frames
  /\ LET m == Eval(mir, c)
     IN  WithValue(m,
       LET cond == Emit(m, "COND_JUMP", <<V(LastVar(m))>>)
           then == AddBlock(cond)
       IN  /\ mir' = PushEnv(AddOperand(then, LastInstr(cond), Lab(LastBlock(then))))
           /\ Push([kind |-> "then", alt |-> alt, cond |-> LastInstr(cond),
                    block |-> LastBlock(then), main |-> cond.env])
           /\ Counted
           /\ UNCHANGED <<globals, status>>)

\* The then branch ends.  With an else branch, that comes next; without, the
\* environments are merged and the result is not used.
LeaveThen ==
  /\ Leaves("then")
  /\ UNCHANGED <<globals, count, status>>
  /\ IF Top.alt
     THEN LET alt == AddBlock(SetEnv(mir, Top.main))
          IN  /\ mir' = PushEnv(AddOperand(alt, Top.cond, Lab(LastBlock(alt))))
              /\ frames' = Append(Front(frames),
                             [kind |-> "else", then |-> Top.block,
                              block |-> LastBlock(alt), env |-> mir.env])
              /\ visible' = Append(Front(visible), {})
     ELSE LET merge == AddBlock(mir)
          IN  /\ mir' = SetEnv(MergeEnvs(InsertJump(merge, Top.block, LastBlock(merge)),
                                         Top.main, mir.env, {}),
                               Top.main)
              /\ Pop

LeaveElse(reached) ==
  /\ Leaves("else")
  /\ LET merge == AddBlock(mir)
         to == LastBlock(merge)
     IN  mir' = MergeEnvs(InsertJump(InsertJump(merge, Top.then, to), Top.block, to),
                          Top.env, mir.env, reached)
  /\ Pop
  /\ UNCHANGED <<globals, count, status>>

\* The names a post expression can assign to.  The checker visits it behind the
\* body, in the scope of the body: it may name what the body will declare.
PostNames(init) == InScope \cup {init} \cup (IF "let" \in Features THEN Fresh ELSE {})

\* Loop, up to its body.  Every part is traversed, and a missing one is a null
\* pointer; the post expression is translated in front of the body.
EnterLoop(init, c, post) ==
  /\ Stmt("loop")
  /\ Len(frames) < profile.frames
  /\ init \in Fresh \cup {None}
  /\ c \in ExprsOver((InScope \cup {init}) \ {None}) \cup {None}
  /\ post \in PostNames(init) \cup {None}
  /\ IF None \in {init, c, post} THEN Throw("unexpected_nullptr")
     ELSE IF ~CanBind(mir, init) THEN Throw("not_inserted")
     ELSE
       LET const == Emit(mir, "CONST_INT", <<Lit>>)
           bound == VarBind(const, init, LastVar(const))
           condBlock == LastBlock(bound) + 1
           value == Eval(AddBlock(AddInstr(bound, "JUMP", <<Lab(condBlock)>>)), c)
       IN WithValue(value,
       LET cond == Emit(value, "COND_JUMP", <<V(LastVar(value))>>)
           expr == Emit(AddBlock(cond), "CONST_INT", <<Lit>>)
           jump == InsertJump(AddUpdate(expr, post, LastVar(expr)),
                              LastBlock(expr), condBlock)
       IN  IF ~Knows(expr, post) THEN Throw("not_defined")
           ELSE /\ mir' = PushEnv(AddBlock(jump))
                /\ frames' = Append(frames, [kind |-> "loop", cond |-> LastInstr(cond),
                                             expr |-> LastBlock(jump), post |-> post])
                /\ visible' = Append([visible EXCEPT ![Len(visible)] = @ \cup {init}], {})
                /\ Counted
                /\ UNCHANGED <<globals, status>>)

\* The body has declared what the post expression names, or it was in scope before.
LeaveLoop ==
  /\ Leaves("loop")
  /\ Top.post \in InScope
  /\ LET body == Top.expr + 1
         merge == AddBlock(InsertJump(PopEnv(mir), body, Top.expr))
     IN  mir' = AddOperand(AddOperand(merge, Top.cond, Lab(body)),
                           Top.cond, Lab(LastBlock(merge)))
  /\ Pop
  /\ UNCHANGED <<globals, count, status>>

Step ==
  \/ \E n \in Name : \/ DeclareGlobal(n)
                     \/ \E op \in {"sum", "difference"} \cap Features :
                          VisitIncrement(n, op)
  \/ \E p \in Fresh \cup {None} : EnterFunction(p)
  \/ LeaveFunction \/ Finish
  \/ \E e \in Exprs :
       \/ VisitCall(e)
       \/ \E n \in Name : \/ VisitBinding(n, e) \/ VisitAssign(n, e)
                          \/ \E op \in CompoundOps : VisitCompound(n, e, op)
       \/ \E alt \in BOOLEAN : EnterIf(e, alt)
  \/ \E e \in Exprs \cup {None} : VisitReturn(e)
  \/ \E c \in ExprsOver(Name) \cup {None}, init, post \in Name \cup {None} :
       EnterLoop(init, c, post)
  \/ \E op \in {"CONTINUE", "BREAK"} : VisitJump(op)
  \/ VisitDefer
  \/ LeaveThen \/ LeaveLoop
  \/ \E reached \in SUBSET Name : LeaveElse(reached)

\* The name that the post expression of a loop has found before its body declares it.
TakenAhead ==
  {n \in Name \ UNION Range(visible') :
     /\ Len(frames') > Len(frames)
     /\ Last(frames').kind = "loop"
     /\ Last(frames').post = n}

Next == Step /\ UNCHANGED profile /\ taken' = taken \cup TakenAhead

Spec == Init /\ [][Next]_vars

-----------------------------------------------------------------------------
(* Properties. *)

Blocks == mir.blocks
Instrs == UNION {{<<b, i>> : i \in DOMAIN Blocks[b]} : b \in DOMAIN Blocks}
Get(p) == Blocks[p[1]][p[2]]
Earlier(p, q) == p[1] < q[1] \/ (p[1] = q[1] /\ p[2] < q[2])
Reads(p) == {Get(p).args[k].id : k \in {k \in DOMAIN Get(p).args :
                                          Get(p).args[k].kind \in {"var", "phi"}}}
Targets(p) == {Get(p).args[k].id : k \in {k \in DOMAIN Get(p).args :
                                            Get(p).args[k].kind = "label"}}

\* Each SSA variable is the result of one instruction at most, however the
\* blocks of nested statements are interleaved, and none is both a parameter
\* and a result.
SingleAssignment ==
  \A p \in Instrs : Get(p).res # 0 =>
    /\ Get(p).res \notin mir.params
    /\ \A q \in Instrs : Get(q).res = Get(p).res => p = q

\* No instruction reads a variable that nothing before it in the function has
\* produced, nor one of an earlier function: a null operand, a stale last
\* instruction or a leftover binding never ends up in an instruction.  There are
\* two exceptions: the nulls that get_call_args puts in front of a call's arguments,
\* and a phi when a name that is no local in scope has an entry and was assigned to.
\* (An if leaves the scope of its branches behind.  When a local of theirs is gone
\* and a global has its name, assignments to the global find the entry, and so does
\* a post expression whose name only the body declares; the branches of an if in
\* another function can disagree on it then.)
Leftover == \E n \in globals \cup taken : Knows(mir, n)
ReadsAreProduced ==
  \A p \in Instrs : \A v \in Reads(p) :
    \/ v # 0 /\ (v \in mir.params \/ \E q \in Instrs : Earlier(q, p) /\ Get(q).res = v)
    \/ Get(p).op = "CALL" /\ v = 0
    \/ Get(p).op = "PHI" /\ Leftover

\* Every local that is in scope has an SSA variable: branches, merges and loops lose
\* no binding.  That holds as well where a lookup has failed (mir_env_state.hpp:46):
\* the name was then not a local in scope, but a global, or one that a post
\* expression takes from the body behind it.
VisibleBound == status \in {"function", "not_defined"} => \A n \in Locals : Knows(mir, n)

\* Control can reach every block from the entry, once the function is complete:
\* no branch, loop or short circuit forgets to link a block it created.
Succ(b) == UNION {Targets(<<b, i>>) : i \in DOMAIN Blocks[b]}
Reach(avoid) ==
  LET r[k \in 0..Len(Blocks)] ==
        IF k = 0 THEN {1} \ avoid
        ELSE LET prev == r[k - 1]
             IN  prev \cup ((UNION {Succ(b) : b \in prev}) \ avoid)
  IN  r[Len(Blocks)]
Complete == status = "function" /\ frames = <<>>
AllBlocksReachable == Complete => Reach({}) = 1..Len(Blocks)

\* After an if with an else branch, a name has a variable that both branches
\* agree on, or the result of a phi that was made for it: an assignment in
\* either branch is seen behind the if.
Merged(e1, e2) ==
  \A n \in (UNION Range(Front(visible))) \ globals :
    \/ VarOf(e1, n) = VarOf(e2, n) /\ VarOf(mir'.env, n) = VarOf(e1, n)
    \/ \E i \in DOMAIN Last(mir'.blocks) :
         /\ Last(mir'.blocks)[i].op = "PHI"
         /\ Last(mir'.blocks)[i].res = VarOf(mir'.env, n)
         /\ {Last(mir'.blocks)[i].args[k].id : k \in 1..2} = {VarOf(e1, n), VarOf(e2, n)}
EndsElse == frames # <<>> /\ Len(frames') < Len(frames) /\ Top.kind = "else"
IfElseMerges == [][EndsElse => Merged(Top.env, mir.env)]_vars

-----------------------------------------------------------------------------
(* What the repository says, and the builder does not do.                  *)

\* "Should never happen so throw and report to user." (mir_env_state.hpp:46): the
\* builder finds every local it looks up, the checker having accepted the program.
LookupsSucceed == status # "not_defined"

\* "The IR is Static Single Assignment (SSA)" (mir/README.md:4): what a use
\* reads has been computed on every path that leads to it.
DefinitionsDominateUses ==
  Complete =>
    \A p, q \in Instrs :
      Get(p).op # "PHI" /\ Get(q).res \in Reads(p) \ {0} =>
        p[1] = q[1] \/ p[1] \notin Reach({q[1]})
=============================================================================
