----------------------------- MODULE MirFactory -----------------------------
(***************************************************************************)
(* mir_builder::MirModuleFactory                                           *)
(* (src/src/acris/mir/mir_builder/mir_module_factory.cpp): the operations   *)
(* that append blocks and instructions to the function under construction.  *)
(* A factory is a record m of the function's basic blocks, the parameters,  *)
(* the environment m_var_env and the next unused SSA variable; an operator  *)
(* returns the factory that the method of its name leaves behind.           *)
(*                                                                         *)
(* SSA variables and blocks are numbered from 1; 0 is a null LocalVarPtr.   *)
(* Types, comments, labels' names and instruction ids are left out.         *)
(***************************************************************************)
EXTENDS Naturals, Sequences, SequencesExt

CONSTANTS
  Name,   \* identifiers
  None    \* an absent child of a node, or an absent entry

\* Operands.
V(v) == [kind |-> "var", id |-> v]
Lab(b) == [kind |-> "label", id |-> b]
Phi(s) == [kind |-> "phi", id |-> s.var, block |-> s.block]
Lit == [kind |-> "literal"]
Fn == [kind |-> "function"]
Null == V(0)

Instr(op, args) == [op |-> op, args |-> args, res |-> 0]

\* LocalVarSite: an SSA variable and the block it is in.
Site == [block : Nat, var : Nat]
At(b, v) == [block |-> b, var |-> v]

Env == INSTANCE EnvState WITH Key <- Name, Value <- Site, Absent <- None

Empty == [blocks |-> <<>>, params |-> {}, env |-> Env!Cleared, next |-> 1]

LastBlock(m) == Len(m.blocks)
AddBlock(m) == [m EXCEPT !.blocks = Append(@, <<>>)]

InsertInto(m, b, op, args) ==
  [m EXCEPT !.blocks[b] = Append(@, Instr(op, args))]
AddInstr(m, op, args) == InsertInto(m, LastBlock(m), op, args)

\* Mutant: the jump ends up in the current block.
InsertJumpHere(m, b, target) == AddInstr(m, "JUMP", <<Lab(target)>>)

\* insert_jump into a block that need not be the last.
InsertJump(m, b, target) == InsertInto(m, b, "JUMP", <<Lab(target)>>)

\* Where the last instruction is, to add operands to it later.
LastInstr(m) == <<LastBlock(m), Len(Last(m.blocks))>>

\* Mutant: the new operand replaces the last one but the first.
SetOperand(m, i, arg) ==
  [m EXCEPT !.blocks[i[1]][i[2]].args = <<Head(@), arg>>]

AddOperand(m, i, arg) ==
  [m EXCEPT !.blocks[i[1]][i[2]].args = Append(@, arg)]

CreateVar(m) == [m EXCEPT !.next = @ + 1]

SetResult(m, v) ==
  LET i == LastInstr(m) IN [m EXCEPT !.blocks[i[1]][i[2]].res = v]

AddResult(m) == CreateVar(SetResult(m, m.next))

Emit(m, op, args) == AddResult(AddInstr(m, op, args))

\* last_var: 0 when the instruction has no result, or there is none in the
\* block; require_last_var throws then.
LastVar(m) == IF Last(m.blocks) = <<>> THEN 0 ELSE Last(Last(m.blocks)).res

PushEnv(m) == [m EXCEPT !.env = Env!PushEnv(@)]
PopEnv(m) == [m EXCEPT !.env = Env!PopEnv(@)]
SetEnv(m, e) == [m EXCEPT !.env = e]

Knows(m, n) == Env!Contains(m.env, n)
VarOf(e, n) == Env!Find(e, n).var

\* var_bind throws when the current scope has the name: CanBind guards it.
CanBind(m, n) == ~Env!InCurrent(m.env, n)
VarBind(m, n, v) ==
  LET bound == Emit(m, "BIND", <<V(v)>>)
  IN  SetEnv(bound, Env!Insert(m.env, n, At(LastBlock(m), LastVar(bound))))

\* Mutant: the name is bound to the id that comes next.
AddUpdateNext(m, n, v) ==
  LET updated == Emit(m, "UPDATE", <<V(v)>>)
  IN  SetEnv(updated, Env!Assign(m.env, n, At(LastBlock(m), updated.next)))

\* add_update: the name stands for the result of an UPDATE from now on.
AddUpdate(m, n, v) ==
  LET updated == Emit(m, "UPDATE", <<V(v)>>)
  IN  SetEnv(updated, Env!Assign(m.env, n, At(LastBlock(m), LastVar(updated))))

\* add_variable_ref: even a read renames a local.
VariableRef(m, n, globals) ==
  IF n \in globals
  THEN Emit(m, "LOAD", <<[kind |-> "global", name |-> n]>>)
  ELSE AddUpdate(m, n, VarOf(m.env, n))

-----------------------------------------------------------------------------
(* merge_envs.  The scopes of both environments are walked in step, and the *)
(* entries of a scope of e1 in the order of an unordered_map, up to the     *)
(* first one that e2 lacks: `reached` is a choice of the entries before it. *)

Entries(scope) == {n \in Name : scope[n] # None}

Common(e1, e2) == 1..(IF Len(e1) <= Len(e2) THEN Len(e1) ELSE Len(e2))

Visited(e1, e2, i, reached) ==
  LET both == Entries(e1[i]) \cap Entries(e2[i])
  IN  IF Entries(e1[i]) \subseteq Entries(e2[i]) THEN both ELSE both \cap reached

Differing(e1, e2, reached) ==
  {p \in Common(e1, e2) \X Name :
     /\ p[2] \in Visited(e1, e2, p[1], reached)
     /\ e1[p[1]][p[2]].var # e2[p[1]][p[2]].var}

\* Mutant: the entry keeps the variable of the first branch.
MergeEntryUnbound(m, e1, e2, p) ==
  Emit(m, "PHI", <<Phi(e1[p[1]][p[2]]), Phi(e2[p[1]][p[2]])>>)

\* One phi for each entry that differs.  The merged entry gets the variable
\* of the phi and keeps the block it had in e1.
MergeEntry(m, e1, e2, p) ==
  LET s1 == e1[p[1]][p[2]]
      s2 == e2[p[1]][p[2]]
      phi == Emit(m, "PHI", <<Phi(s1), Phi(s2)>>)
  IN  [phi EXCEPT !.env[p[1]][p[2]].var = LastVar(phi)]

\* The entries of todo are merged one after the other.
Merging(m, e1, e2, todo) ==
  LET merged[k \in 0..Len(todo)] ==
        IF k = 0 THEN SetEnv(m, e1) ELSE MergeEntry(merged[k - 1], e1, e2, todo[k])
  IN  merged[Len(todo)]

\* Mutant: a scope is popped for each of the branches.
MergeEnvsPops(m, e1, e2, reached) ==
  LET popped == SubSeq(e1, 1, Len(e1) - 2)
  IN  Merging(m, popped, e2, SetToSeq(Differing(popped, e2, reached)))

MergeEnvs(m, e1, e2, reached) ==
  Merging(m, e1, e2, SetToSeq(Differing(e1, e2, reached)))
=============================================================================
