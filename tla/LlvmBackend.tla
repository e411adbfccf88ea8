----------------------------- MODULE LlvmBackend -----------------------------
(***************************************************************************)
(* codegen::llvm_backend::LlvmBackend                                      *)
(* (src/src/acris/codegen/llvm_backend/llvm_backend.cpp): the translation   *)
(* of a MIR module into LLVM instructions, behind MirBuilder.  The builder  *)
(* makes the functions of the module; then on_function() translates one     *)
(* after the other, and the result is verified.                            *)
(*                                                                         *)
(* An LLVM instruction is an operator with its operands; a value is a       *)
(* constant or the place of the instruction that computes it.  (m_builder    *)
(* folds an instruction of constants into the constant it computes; here it *)
(* stays an instruction that computes it.)  The types of values are         *)
(* integers, booleans, addresses and those that are not native; a function  *)
(* may be declared to return anything native that has an LLVM type.          *)
(***************************************************************************)
EXTENDS MirBuilder

CONSTANT Foreign   \* the globals that are declared with a type that is not native

ASSUME LlvmAssumption == Foreign \subseteq Name

VARIABLES
  functions,   \* m_functions of the MIR module, those that are complete
  llvm,        \* the backend, see NoBackend
  done,        \* how many functions on_module() has visited
  outcome      \* "running", "compiled", "invalid", or how compile() was left

llvmVars == <<functions, llvm, done, outcome>>
allVars == <<vars, llvmVars>>

\* The LLVM functions of m_module, a sequence of blocks each, with the MIR
\* functions they are named after; m_locals, m_bblocks and m_entry_bblock; where
\* m_builder inserts; and what went wrong.
NoBackend == [fns |-> <<>>, names |-> <<>>, locals |-> <<>>, bblocks |-> <<>>,
              entry |-> None, at |-> None, error |-> ""]

LlvmInit ==
  /\ Init
  /\ functions = <<>>
  /\ llvm = NoBackend
  /\ done = 0
  /\ outcome = "running"

-----------------------------------------------------------------------------
(* Values and instructions. *)

Const(id) == [kind |-> "const", id |-> id]
NoValue == [kind |-> "none"]
InsAt(block, i) == [kind |-> "ins", block |-> block, index |-> i]

BlockOf(be, at) == be.fns[at[1]][at[2]]
InsOf(be, v) == BlockOf(be, v.block)[v.index]
IsAlloca(be, v) == v.kind = "ins" /\ InsOf(be, v).op = "alloca"

Failed(be, error) == [be EXCEPT !.error = IF @ = "" THEN error ELSE @]

\* What n turns of a loop make of z, the first of which is step(z, 1).
Loop(step(_, _), n, z) ==
  LET turn[k \in 0..n] == IF k = 0 THEN z ELSE step(turn[k - 1], k) IN turn[n]

\* What a map is after an assignment, and after unordered_map::emplace(), which
\* keeps an entry that is there.
Overwrite(map, key, value) ==
  [k \in DOMAIN map \cup {key} |-> IF k = key THEN value ELSE map[k]]
Emplace(map, key, value) ==
  [k \in DOMAIN map \cup {key} |-> IF k \in DOMAIN map THEN map[k] ELSE value]

PutAt(be, at, op, args) ==
  [be EXCEPT !.fns[at[1]][at[2]] = Append(@, [op |-> op, args |-> args])]
Put(be, op, args) == PutAt(be, be.at, op, args)
Newest(be, at) == InsAt(at, Len(BlockOf(be, at)))

\* What an operator leaves behind: a backend and values.
Got(be, vals) == [be |-> be, vals |-> vals]

\* m_locals.at() as it is used without operand2llvm().
RawLocal(be, v) ==
  IF v \in DOMAIN be.locals THEN Got(be, <<be.locals[v]>>)
  ELSE Got(Failed(be, "out_of_range"), <<NoValue>>)

\* Mutant: the address of a variable stands for its value.
LocalAddress(be, v) == RawLocal(be, v)

\* A variable with memory of its own is loaded.
Local(be, v) ==
  LET raw == RawLocal(be, v)
      load == Put(be, "load", raw.vals)
  IN  IF IsAlloca(be, raw.vals[1]) THEN Got(load, <<Newest(load, be.at)>>) ELSE raw

\* operand2llvm
Operand(be, arg) ==
  CASE arg.kind = "literal" -> Got(be, <<Const(0)>>)
    [] arg.kind = "var"     -> Local(be, arg.id)
    [] OTHER                -> Got(Failed(be, "unsupported"), <<NoValue>>)

Operands(be, args) ==
  Loop(LAMBDA got, k : LET one == Operand(got.be, args[k])
                       IN  Got(one.be, got.vals \o one.vals),
       Len(args), Got(be, <<>>))

\* The instruction with its result.
Result(got, op, res) ==
  IF got.be.error # "" THEN got.be
  ELSE LET put == Put(got.be, op, got.vals)
       IN  [put EXCEPT !.locals = Emplace(@, res, Newest(put, put.at))]

Names(be, res, got) ==
  IF got.be.error # "" THEN got.be
  ELSE [got.be EXCEPT !.locals = Emplace(@, res, got.vals[1])]
-----------------------------------------------------------------------------
(* The instructions of the MIR. *)

\* Both IADD and ISUB go to on_isub().
LlvmOp ==
  [IADD |-> "sub", ISUB |-> "sub", IMUL |-> "mul", IDIV |-> "sdiv", IMOD |-> "srem",
   ICMP_LT |-> "slt", ICMP_LTE |-> "sle", ICMP_EQ |-> "eq", ICMP_NE |-> "ne",
   ICMP_GT |-> "sgt"]

\* An instruction without a result is a null pointer that is followed.
OnBinary(be, i) ==
  IF i.res = 0 THEN Failed(be, "crash")
  ELSE Result(Operands(be, i.args), LlvmOp[i.op], i.res)

\* on_icmp_gte takes the variables as they are in m_locals.
OnGreaterEqual(be, i) ==
  LET left == RawLocal(be, i.args[1].id)
      right == RawLocal(left.be, i.args[2].id)
  IN  Result(Got(right.be, left.vals \o right.vals), "sge", i.res)

OnConst(be, i) == Names(be, i.res, Got(be, <<Const(i.res)>>))

\* on_bind stores into the memory that was allocated for its result.
OnBind(be, i) ==
  LET val == Operand(be, i.args[1])
      place == RawLocal(val.be, i.res)
  IN  IF place.be.error # "" THEN place.be
      ELSE Put(place.be, "store", val.vals \o place.vals)

OnUpdate(be, i) == Names(be, i.res, RawLocal(be, i.args[1].id))

\* A label is unique in the module: m_block_id counts on.
Target(be, arg) == be.bblocks[<<Last(be.names), arg.id>>]

OnJump(be, i) == Put(be, "br", <<Target(be, i.args[1])>>)

\* operands.at(2) is missing when an if has no else branch.
OnCondJump(be, i) ==
  LET cond == RawLocal(be, i.args[1].id)
  IN  IF cond.be.error # "" THEN cond.be
      ELSE IF Len(i.args) < 3 THEN Failed(be, "out_of_range")
      ELSE Put(be, "condbr", cond.vals \o <<Target(be, i.args[2]), Target(be, i.args[3])>>)

OnReturn(be, i) ==
  LET got == Operands(be, i.args)
  IN  IF i.args = <<>> THEN Failed(be, "out_of_range")
      ELSE IF got.be.error # "" THEN got.be
      ELSE Put(got.be, "ret", got.vals)

\* The phi comes first, and what its values need behind it.  Those of And and Or
\* have no blocks.
OnPhi(be, i) ==
  LET phi == Put(be, "phi", <<>>)
      place == Newest(phi, phi.at)
      got == Operands(phi, [k \in DOMAIN i.args |-> V(i.args[k].id)])
      incoming == [k \in DOMAIN i.args |-> <<Target(be, [id |-> i.args[k].block]), got.vals[k]>>]
  IN  IF \E k \in DOMAIN i.args : i.args[k].kind # "phi" THEN Failed(be, "bad_variant")
      ELSE IF got.be.error # "" THEN got.be
      ELSE [got.be EXCEPT !.fns[be.at[1]][be.at[2]][place.index].args = incoming,
                          !.locals = Emplace(@, i.res, place)]

\* Loads of globals, calls, continue, break, and constants of other types are
\* skipped.
OnInstruction(be, i) ==
  CASE be.error # ""          -> be
    [] i.op = "CONST_INT"     -> OnConst(be, i)
    [] i.op \in DOMAIN LlvmOp -> OnBinary(be, i)
    [] i.op = "ICMP_GTE"      -> OnGreaterEqual(be, i)
    [] i.op = "BIND"          -> OnBind(be, i)
    [] i.op = "UPDATE"        -> OnUpdate(be, i)
    [] i.op = "COND_JUMP"     -> OnCondJump(be, i)
    [] i.op = "JUMP"          -> OnJump(be, i)
    [] i.op = "RETURN"        -> OnReturn(be, i)
    [] i.op = "PHI"           -> OnPhi(be, i)
    [] OTHER                  -> be

OnBlock(be, block, at) ==
  Loop(LAMBDA acc, k : OnInstruction(acc, block[k]), Len(block), [be EXCEPT !.at = at])

-----------------------------------------------------------------------------
(* Functions. *)

Instructions(f) == Loop(LAMBDA all, b : all \o f.blocks[b], Len(f.blocks), <<>>)

Comparisons == {"ICMP_LT", "ICMP_LTE", "ICMP_EQ", "ICMP_NE", "ICMP_GT", "ICMP_GTE"}

\* m_type of each variable, which names and their renamings share.
TypeOfResult(types, i) ==
  CASE i.op \in Comparisons \cup {"CONST_BOOL", "COND_JUMP"} -> "i1"
    [] i.op = "LOAD" -> IF i.args[1].name \in Foreign THEN "foreign" ELSE "i32"
    [] i.op \in {"BIND", "UPDATE", "PHI"} -> types[i.args[1].id]
    [] OTHER -> "i32"

TypesOf(f) ==
  LET all == Instructions(f)
  IN  Loop(LAMBDA types, k : Overwrite(types, all[k].res, TypeOfResult(types, all[k])),
           Len(all), [v \in f.params |-> "i32"])

\* m_locals of a MIR function, to which var_bind() adds, as places in its code; and
\* those whose type is not native.
LocalsOf(f) == {k \in DOMAIN Instructions(f) : Instructions(f)[k].op = "BIND"}
ForeignLocals(f) == {k \in LocalsOf(f) : TypesOf(f)[Instructions(f)[k].res] = "foreign"}
Cancelled(f) == ForeignLocals(f) # {}

CreateFunction(be, f, k) ==
  LET n == Len(be.fns) + 1
      labels == {k} \X DOMAIN f.blocks
  IN  [be EXCEPT !.fns = Append(@, [b \in DOMAIN f.blocks |-> <<>>]),
                 !.names = Append(@, k),
                 !.bblocks = [l \in DOMAIN @ \cup labels |->
                                IF l \in DOMAIN @ THEN @[l] ELSE <<n, l[2]>>],
                 !.entry = IF @ = None THEN <<n, 1>> ELSE @]

\* Mutant: a local has no memory before it is bound.
AllocateLate(be, f) == be

\* Memory for the locals, up to the first whose type is not native, at the end of
\* what m_entry_bblock points to.
Allocate(be, f) ==
  LET all == Instructions(f)
      types == TypesOf(f)
      places == {k \in LocalsOf(f) : \A j \in ForeignLocals(f) : k < j}
      alloca(acc, i) ==
        LET put == PutAt(acc, acc.entry, "alloca", <<types[i.res]>>)
        IN  [put EXCEPT !.locals = Emplace(@, i.res, Newest(put, put.entry))]
  IN  Loop(LAMBDA acc, k : IF k \in places THEN alloca(acc, all[k]) ELSE acc, Len(all), be)

\* Mutant: the entry block is not reset.
CleanUpTables(be) == [be EXCEPT !.locals = <<>>, !.bblocks = <<>>]

CleanUp(be) == [be EXCEPT !.locals = <<>>, !.bblocks = <<>>, !.entry = None]

\* on_function: a function whose signature is not native is left out; one with
\* such a local is left as it is then, its blocks empty, the tables not cleared.
OnFunction(be, f, k) ==
  LET ready == Allocate(CreateFunction(be, f, k), f)
      body == Loop(LAMBDA acc, b : OnBlock(acc, f.blocks[b], acc.bblocks[<<k, b>>]),
                   Len(f.blocks), ready)
  IN  IF ~f.native THEN be
      ELSE IF Cancelled(f) THEN ready
      ELSE IF body.error # "" THEN body
      ELSE CleanUp(body)

-----------------------------------------------------------------------------
(* What llvm::verifyModule() asks of a module. *)

Terminators == {"br", "condbr", "ret"}
TargetsOf(i) == CASE i.op = "br" -> {i.args[1]}
                  [] i.op = "condbr" -> {i.args[2], i.args[3]}
                  [] OTHER -> {}
Successors(fn, b) == {t[2] : t \in UNION {TargetsOf(fn[b][i]) : i \in DOMAIN fn[b]}}

Reachable(fn, avoid) ==
  LET r[k \in 0..Len(fn)] ==
        IF k = 0 THEN {1} \ avoid
        ELSE r[k - 1] \cup ((UNION {Successors(fn, b) : b \in r[k - 1]}) \ avoid)
  IN  r[Len(fn)]
Dominates(fn, a, b) == a = b \/ b \notin Reachable(fn, {a})

WellFormed(fn, b) ==
  /\ fn[b] # <<>>
  /\ {i \in DOMAIN fn[b] : fn[b][i].op \in Terminators} = {Len(fn[b])}
  /\ \A i \in DOMAIN fn[b] : fn[b][i].op = "phi" => \A j \in 1..i : fn[b][j].op = "phi"

ValueType(be, v) ==
  IF v.kind = "const" THEN "i32"
  ELSE CASE InsOf(be, v).op = "alloca" -> "ptr"
         [] InsOf(be, v).op = "load"   -> InsOf(be, InsOf(be, v).args[1]).args[1]
         [] InsOf(be, v).op \in {"slt", "sle", "eq", "ne", "sgt", "sge"} -> "i1"
         [] OTHER -> "i32"

\* The values an instruction uses.
Uses(i) ==
  CASE i.op = "alloca" -> <<>>
    [] i.op = "br"     -> <<>>
    [] i.op = "condbr" -> <<i.args[1]>>
    [] i.op = "phi"    -> [k \in DOMAIN i.args |-> i.args[k][2]]
    [] OTHER           -> i.args

\* Instruction i of a function that returns a value of type returns.
WellTyped(be, i, returns) ==
  LET type(k) == ValueType(be, Uses(i)[k])
  IN  CASE i.op = "condbr" -> type(1) = "i1"
        [] i.op = "phi"    -> \A k \in DOMAIN i.args : type(k) = "i32"
        [] i.op = "ret"    -> type(1) = returns
        [] i.op = "store"  -> type(1) = InsOf(be, i.args[2]).args[1]
        [] i.op \in Range(LlvmOp) \cup {"sge"} -> type(1) = type(2)
        [] OTHER           -> TRUE

\* The value is computed in front of instruction k of block b of function n.
Computed(be, v, n, b, k) ==
  v.kind = "ins" =>
    /\ v.block[1] = n
    /\ IF v.block[2] = b THEN v.index < k ELSE Dominates(be.fns[n], v.block[2], b)

UsesComputed(be, n, b, k) ==
  LET i == be.fns[n][b][k]
  IN  IF i.op = "phi"
      THEN /\ {i.args[a][1][2] : a \in DOMAIN i.args}
              = {p \in DOMAIN be.fns[n] : b \in Successors(be.fns[n], p)}
           /\ \A a \in DOMAIN i.args :
                LET from == i.args[a][1][2]
                IN  Computed(be, i.args[a][2], n, from, Len(be.fns[n][from]))
      ELSE \A a \in DOMAIN Uses(i) : Computed(be, Uses(i)[a], n, b, k)

\* The LLVM function was created with the return type of the MIR function.
ReturnType(be, n) == functions[be.names[n]].returns

VerifyModule(be) ==
  \A n \in DOMAIN be.fns : \A b \in DOMAIN be.fns[n] :
    /\ WellFormed(be.fns[n], b)
    /\ b \in Reachable(be.fns[n], {}) =>
         \A k \in DOMAIN be.fns[n][b] : UsesComputed(be, n, b, k)
    /\ 1 \notin Successors(be.fns[n], b)
    /\ \A k \in DOMAIN be.fns[n][b] : WellTyped(be, be.fns[n][b][k], ReturnType(be, n))

-----------------------------------------------------------------------------
(* The phases.  A signature can only fail to be native where there are types *)
(* that are not.                                                            *)

\* Nothing checks that the values a function returns have the type it declares, so any
\* type may be declared: that of an integer, of a boolean, or one that no value has
\* here, as void.
ReturnTypes == IF "types" \in Features THEN {"i32", "i1", "other"} ELSE {"i32"}

Built(native, returns) ==
  [blocks |-> mir.blocks, params |-> mir.params, native |-> native, returns |-> returns]

EndsFunction == status = "function" /\ status' = "module"

Build ==
  /\ Next
  /\ IF EndsFunction
     THEN \E native \in {TRUE, Foreign = {}}, returns \in ReturnTypes :
            functions' = Append(functions, Built(native, returns))
     ELSE UNCHANGED functions
  /\ UNCHANGED <<llvm, done, outcome>>

Backend == status = "done" /\ profile.llvm /\ outcome = "running"

Visit ==
  /\ Backend
  /\ done < Len(functions)
  /\ llvm' = OnFunction(llvm, functions[done + 1], done + 1)
  /\ done' = done + 1
  /\ outcome' = IF llvm'.error # "" THEN llvm'.error ELSE "running"
  /\ UNCHANGED <<vars, functions>>

\* An invalid module is reported, and compile() returns as if it were not.
Verify ==
  /\ Backend
  /\ done = Len(functions)
  /\ outcome' = IF VerifyModule(llvm) THEN "compiled" ELSE "invalid"
  /\ UNCHANGED <<vars, functions, llvm, done>>

LlvmNext == Build \/ Visit \/ Verify
LlvmSpec == LlvmInit /\ [][LlvmNext]_allVars

-----------------------------------------------------------------------------
(* What a function does along the path that the outcomes c of its conditions *)
(* choose: the conditions and the result, as terms over its constants.       *)

CONSTANTS MaxPath, MaxVisits   \* bounds: conditions and blocks on a path

Start(c) == [vals |-> <<>>, block |-> 1, from |-> 0, left |-> c, trace |-> <<>>,
             over |-> FALSE]

Value(st, v) == IF v \in DOMAIN st.vals THEN st.vals[v] ELSE <<"undefined">>
Assign(st, v, term) == [st EXCEPT !.vals = Overwrite(@, v, term)]
Goto(st, b) == [st EXCEPT !.from = st.block, !.block = b]
Ends(st, term) == [st EXCEPT !.trace = Append(@, term), !.over = TRUE]
Forks(st, term, yes, no) ==
  IF st.left = <<>> THEN Ends(st, <<"unfinished">>)
  ELSE Goto([st EXCEPT !.left = Tail(@), !.trace = Append(@, term)],
            IF Head(st.left) THEN yes ELSE no)

\* step(st, block) runs a block.
Path(step(_, _), c) ==
  FoldLeft(LAMBDA st, k : IF st.over THEN st ELSE step(st, st.block),
           Start(c), [k \in 1..MaxVisits |-> k]).trace

\* The meaning of the opcodes, as mir.hpp writes them.
Meaning ==
  [IADD |-> "add", ISUB |-> "sub", IMUL |-> "mul", IDIV |-> "sdiv", IMOD |-> "srem",
   ICMP_LT |-> "slt", ICMP_LTE |-> "sle", ICMP_EQ |-> "eq", ICMP_NE |-> "ne",
   ICMP_GT |-> "sgt", ICMP_GTE |-> "sge"]

MirTerm(st, arg) == IF arg.kind = "literal" THEN <<"const", 0>> ELSE Value(st, arg.id)
MirTerms(st, i) == [k \in DOMAIN i.args |-> MirTerm(st, i.args[k])]

\* A path ends where it reads a variable that it has not computed.
Unknown(st, i) ==
  \E k \in DOMAIN i.args : i.args[k].kind = "var" /\ i.args[k].id \notin DOMAIN st.vals

MirRun(st, i) ==
  CASE st.over -> st
    [] Unknown(st, i) -> Ends(st, <<"undefined">>)
    [] i.op \in DOMAIN Meaning ->
         Assign(st, i.res, <<Meaning[i.op]>> \o MirTerms(st, i))
    [] i.op \in Range(LiteralOpcode) -> Assign(st, i.res, <<"const", i.res>>)
    [] i.op = "LOAD" -> Assign(st, i.res, <<"global", i.args[1].name>>)
    [] i.op \in {"BIND", "UPDATE"} -> Assign(st, i.res, MirTerms(st, i)[1])
    [] i.op = "PHI" ->
         Assign(st, i.res, Value(st, (CHOOSE a \in Range(i.args) : a.block = st.from).id))
    [] i.op = "JUMP" -> Goto(st, i.args[1].id)
    [] i.op = "COND_JUMP" -> Forks(st, MirTerms(st, i)[1], i.args[2].id, i.args[3].id)
    [] i.op = "RETURN" -> Ends(st, MirTerms(st, i)[1])
    [] OTHER -> Ends(st, <<i.op>>)

MirTrace(f, c) ==
  Path(LAMBDA st, b : FoldLeft(MirRun, st, f.blocks[b]), c)

\* A value is named by its place.  The value of an allocation is an address.
Memory(place) == [place EXCEPT !.kind = "memory"]
LlvmTerm(st, v) == IF v.kind = "const" THEN <<"const", v.id>> ELSE Value(st, v)
LlvmTerms(st, i) == [k \in DOMAIN i.args |-> LlvmTerm(st, i.args[k])]

LlvmRun(st, i, place) ==
  CASE i.op = "alloca" -> Assign(st, place, <<"address", place.block[2], place.index>>)
    [] i.op = "store"  -> Assign(st, Memory(i.args[2]), LlvmTerm(st, i.args[1]))
    [] i.op = "load"   -> Assign(st, place, Value(st, Memory(i.args[1])))
    [] i.op = "phi"    ->
         Assign(st, place, LlvmTerm(st, (CHOOSE a \in Range(i.args) : a[1][2] = st.from)[2]))
    [] i.op = "br"     -> Goto(st, i.args[1][2])
    [] i.op = "condbr" -> Forks(st, LlvmTerm(st, i.args[1]), i.args[2][2], i.args[3][2])
    [] i.op = "ret"    -> Ends(st, LlvmTerms(st, i)[1])
    [] OTHER           -> Assign(st, place, <<i.op>> \o LlvmTerms(st, i))

LlvmTrace(be, n, c) ==
  Path(LAMBDA st, b : FoldLeft(LAMBDA acc, k : LlvmRun(acc, be.fns[n][b][k], InsAt(<<n, b>>, k)),
                               st, [k \in DOMAIN be.fns[n][b] |-> k]), c)

-----------------------------------------------------------------------------
(* Properties. *)

\* A module that LLVM accepts does what the MIR says, along every path on which
\* the MIR says something: variables that were given memory, values that only
\* have a name, and what an update makes of either agree on each value that is
\* tested or returned.
CompiledBehavesAsBuilt ==
  outcome = "compiled" =>
    \A n \in DOMAIN llvm.fns :
      \A c \in UNION {[1..k -> BOOLEAN] : k \in 0..MaxPath} :
        LET says == MirTrace(functions[llvm.names[n]], c)
        IN  Last(says) = <<"undefined">> \/ LlvmTrace(llvm, n, c) = says

\* As long as no function was given up, an instruction uses values and memory of
\* its own function, whatever the functions before it have left in the tables.
ValuesAreOwn ==
  (\A k \in 1..done : functions[k].native => ~Cancelled(functions[k])) =>
    \A n \in DOMAIN llvm.fns : \A b \in DOMAIN llvm.fns[n] :
      \A k \in DOMAIN llvm.fns[n][b] :
        \A v \in Range(Uses(llvm.fns[n][b][k])) : v.kind = "ins" => v.block[1] = n

\* A module of functions of one block, without parameters, that end in their only
\* return, whose operands agree in type and that return what they declare is compiled:
\* nothing in a straight line is looked up before it is there.
TypeOfOperand(types, x) == IF x.kind = "var" THEN types[x.id] ELSE "i32"
OperandsAgree(types, i) ==
  i.op \in DOMAIN LlvmOp =>
    \A x, y \in Range(i.args) : TypeOfOperand(types, x) = TypeOfOperand(types, y)
Straight(f) ==
  /\ f.native /\ f.params = {} /\ Len(f.blocks) = 1 /\ f.blocks[1] # <<>>
  /\ \A k \in DOMAIN f.blocks[1] :
       LET i == f.blocks[1][k]
       IN  /\ i.op \in DOMAIN LlvmOp \cup {"CONST_INT", "BIND", "UPDATE", "RETURN"}
           /\ (i.op = "RETURN") = (k = Len(f.blocks[1]))
           /\ IF i.op = "RETURN"
              THEN i.args # <<>> /\ TypeOfOperand(TypesOf(f), i.args[1]) = f.returns
              ELSE i.res # 0
           /\ OperandsAgree(TypesOf(f), i)
StraightIsCompiled ==
  (status = "done" /\ \A k \in DOMAIN functions : Straight(functions[k])) =>
    outcome \in {"running", "compiled"}
=============================================================================
