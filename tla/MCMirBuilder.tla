---------------------------- MODULE MCMirBuilder ----------------------------
(***************************************************************************)
(* Small modules for MirBuilder and LlvmBackend.  Two names give a variable *)
(* that survives a branch or a loop and one that lives inside of it.        *)
(***************************************************************************)
EXTENDS LlvmBackend

CONSTANTS a, b

Everything ==
  [features |-> {"name", "not", "call", "and", "sum", "let", "assign", "return", "jump",
                 "defer", "if", "else", "loop", "global", "parameter"},
   names |-> Name, frames |-> 2, stmts |-> 2, fns |-> 1, llvm |-> FALSE]

\* Assignments that compute.
Computing ==
  [features |-> {"name", "sum", "remainder", "let", "compound", "increment", "parameter"},
   names |-> Name, frames |-> 0, stmts |-> 2, fns |-> 2, llvm |-> FALSE]

\* Both branches of nested ifs.
Branching ==
  [features |-> {"name", "assign", "let", "if", "else"},
   names |-> Name, frames |-> 2, stmts |-> 4, fns |-> 1, llvm |-> FALSE]

\* A global that has the name of a local of an earlier function.
Leftovers ==
  [features |-> {"let", "assign", "if", "else", "global"},
   names |-> {a}, frames |-> 1, stmts |-> 4, fns |-> 2, llvm |-> FALSE]

\* A loop whose post expression finds what a branch left behind, or nothing.
PostLeftovers ==
  [features |-> {"let", "else", "loop"},
   names |-> Name, frames |-> 2, stmts |-> 4, fns |-> 2, llvm |-> FALSE]

\* What the LLVM backend translates: lines of code, returned as any type,
Lines ==
  [features |-> {"name", "neg", "difference", "less", "let", "assign", "compound", "return",
                 "types"},
   names |-> Name, frames |-> 0, stmts |-> 2, fns |-> 1, llvm |-> TRUE]
Copies ==
  [features |-> {"name", "let", "assign", "difference", "return", "types"},
   names |-> Name, frames |-> 0, stmts |-> 3, fns |-> 1, llvm |-> TRUE]

Mixed ==
  [features |-> {"name", "neg", "less", "let", "return", "types"},
   names |-> Name, frames |-> 0, stmts |-> 3, fns |-> 1, llvm |-> TRUE]

\* branches and loops,
Branches ==
  [features |-> {"less", "let", "assign", "if", "else", "return"},
   names |-> {a}, frames |-> 1, stmts |-> 5, fns |-> 1, llvm |-> TRUE]
Loops ==
  [features |-> {"name", "less", "let", "assign", "loop", "return"},
   names |-> Name, frames |-> 1, stmts |-> 3, fns |-> 1, llvm |-> TRUE]

\* and several functions, some with parts that have no native type.
Several ==
  [features |-> {"name", "flag", "let", "return", "global", "increment", "difference",
                 "and", "parameter"},
   names |-> Name, frames |-> 0, stmts |-> 2, fns |-> 2, llvm |-> TRUE]

MCProfiles ==
  {Everything, Computing, Branching, Leftovers, PostLeftovers, Lines, Copies, Mixed,
   Branches, Loops, Several}

\* Loops whose variables are used behind them.
Looping == {[features |-> {"name", "assign", "loop", "parameter"},
             names |-> Name, frames |-> 1, stmts |-> 2, fns |-> 1, llvm |-> FALSE]}

\* Loops whose post expression assigns to a local.
Posts == {[features |-> {"name", "let", "loop"},
           names |-> Name, frames |-> 1, stmts |-> 2, fns |-> 1, llvm |-> FALSE]}
=============================================================================
