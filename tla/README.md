# Acris: a verification development

TLA+ specifications of the Acris compiler (`src/src/acris`), model-checked with TLC
and, for the properties that matter most, proved with TLAPS. Paths below are
relative to `src/src/acris` unless they start with `src/`.

Acris is a sequential batch compiler. There are no threads, no messages and no
persistence in it. What is hard is **state that is threaded through a long recursive
traversal**: a cursor that several functions move back and forth, a stack of scopes that
every visitor pushes and pops, "the last instruction", a context flag set by a destructor,
a table that outlives the function it was filled for. A step of a behaviour is one step of
such a traversal, and the input (the source text, the AST) is chosen nondeterministically:
TLC explores every small program.

## 1. Inventory

`unit/translation_unit.cpp` runs the phases for one source file: read, preprocess,
lex, parse, semantic check, MIR (when the backend wants it), backend. `main.cpp` runs
one unit after another with one backend. Each phase makes a fresh object, so that phases
interact through the value that one returns and the next one takes; the backend alone
keeps state from one unit to the next.

| component | state | operations | hard behaviour | correct when |
|---|---|---|---|---|
| `container/text_buffer` | lines, cursor | `next`, `prev`, `peek`, `next_line` | line ends; `peek` is `next` and `prev` | the cursor is on a character or behind the last line |
| `preprocessor` | defined macros, files registered by `include_once`, nesting count, output | `#<include`, `#<include_once`, `#<ifdef`/`else`/`endif`, `#<error` | recursion, circular includes, who steps over which line | it ends; text outside of conditionals survives; `include_once` means once; only taken branches include |
| `lexer` | cursor, tokens | one scanning function for each class of token | lookahead; the agreement on who steps over the last character; unterminated tokens | it ends; tokens tile the text; longest match; line breaks survive |
| `parser` (`parser.cpp`, `backtrack_guard.cpp`) | token cursor | `next`, `prev`, `expect`, guards | the cursor is moved back | no token is lost or read twice |
| `parser/acris` | token cursor, `ContextStore` | recursive descent, `ContextGuard`s | guards of the same context nest; exceptions unwind | a keyword is admitted exactly inside its construct |
| `parser/acris/pratt` | token cursor | expressions by binding power, chains, casts by backtracking | an operator that binds too loosely is handed back | the tree is the one the table of binding powers defines |
| `container/env_state` | stack of scopes | `find`, `insert`, assignment through the iterator, `push_env`, `pop_env` | lookups over all scopes | see `ScopedTable` |
| `semantic/semantic_checker`, `semantic_validator` | symbols in scope, active attributes, active struct, annotation queue | one visitor for each AST node | order of declaration, definition and use; scopes pushed inside handlers; parts that are not visited | a name means one thing at a time and as long as its scope is open; the ways to give a variable a value agree on types |
| `semantic/annotation_queue`, `types/semantic` | queue of nodes and types; struct types shared by pointer | `push`, `annotate_ast` | types that change between both | every annotation sees the whole type |
| `semantic/type_promoter` | none | promotions of native types | a ladder that is not one of widths | an order; symmetric for operands |
| `mir/mir_builder` | the module, the last function and block, environments of SSA variables, globals | one visitor for each AST node | control flow: saved and restored environments, jumps added afterwards, "the last variable" | well-formed SSA |
| `codegen/llvm_backend` | tables from MIR variables and labels to LLVM values and blocks, entry block | one handler for each opcode | a variable is memory or a value; tables that must be reset | the code does what the MIR says |
| `codegen/cpp_backend` | stack of terminators, defer counter, exports | one visitor for each AST node | parentheses and semicolons that are somebody else's | the C++ has the structure of the tree |
| `interop` | exported functions | registration, binding | state shared by all units | bindings of functions that exist |
| `unit`, `main.cpp` | phase, backend shared by all units | the pipeline | a failing unit | units in order, the first exception ends the run, OK means all |
| `ast`, `token`, `symbol_table`, `settings`, `diagnostic`, `debug`, `driver`, `src/src/lib` | data, tables, messages | | | |

Calls are direct, and an error is an exception that no phase catches: `main` turns it
into an exit code. So every module has a `status`, a `stage` or an `outcome`, which says
how the phase was left, and after an error nothing happens any more (this is why the runs
do not check for deadlock).

`hazards` in `PROJECT.json` lists what is hard to test, line by line, with the properties
that watch it.

## 2. Plan

Built in this order, the most important behaviour first; all of it is done.

1. `EnvState`, `SemanticScope`, `ScopedTable`: scoping, on which all later phases rely;
   abstract specification, and proofs of the properties and of the refinement.
2. `TextBuffer`, `Lexer`: cursor and lookahead, with proofs.
3. `Preprocessor`: includes and conditionals, with proofs.
4. `MirFactory`, `MirBuilder`: SSA construction, several functions to a module, with
   proofs.
5. `ParserContext`: keywords in context, with proofs.
6. `TokenStream`, `TypeParser`, `Pratt`, `AcrisParser`: the grammar; `PrecedenceGrammar`
   as the reference for expressions.
7. `TypePromoter` (with proofs), `SymbolTypes`, `ExpressionChecker`, `ProgramChecker`,
   `AnnotationQueue`: types.
8. `CppBackend`, with `CppReading` as the reference for how C++ reads its output.
9. `Expressions`: parser, checker and backend composed for one expression.
10. `Driver` (with proofs) and `Pipeline`, which composes parser, checker, backend and
    driver for whole runs and implements `Driver`.
11. `LlvmBackend` behind `MirBuilder`, with proofs.

What would come next: the table of functions of the MIR and forward declarations that are
completed in place; the MIR phase and the LLVM backend inside of `Pipeline`; a refinement
between `ProgramChecker` and `SemanticScope`, which model the same visitors at two levels.

## 3. Modules

### Front end

**`TextBuffer`**, **`Lexer`**: the cursor operations, and `tokenize` with one action for each
branch of its dispatch and one for each turn of a scanning loop. A token is its type and
its span. The tables of symbols and the character classes are constants. The asserts of
the source are a constant too, `Asserts`, because a release build runs on.

**`Preprocessor`**: the recursion `handle_preprocessor` / `include_file` / `handle_ifdef` is
`open`, the stack of open files, each with the conditionals it is inside of. `handle_ifdef`
has a loop of its own that treats `else` and `endif`; its other branch is guarded by
`Expands`. The file system is a constant set of candidates, one of which is chosen.

**`ParserContext`**: the parser's constructs as a call stack, the guards and the checks.

**`TokenStream`** is `Parser`: a parser state is a record of the tokens, the cursor, the node
that was made and the error that was raised; every parser function is an operator on it.
**`TypeParser`**, **`Pratt`** and **`AcrisParser`** are the functions of the classes of that name.
A token is its spelling, a tree a tuple of a node's class and its parts. The lambdas that
`chain_expr`, `expr` and `effect_expr` hand down become one operator for each, with the
minimal binding power as parameter; `prev` and `BacktrackGuard` move the cursor and leave
the rest.

**`PrecedenceGrammar`** is not code but what the table of binding powers means: all the
readings of a token sequence as an expression in which no operator binds more loosely than
the table allows where it stands.

### Checker

**`EnvState`** is `container::EnvState<T>`: operators on a sequence of scopes. A scope is
a total function with a value for "no entry", in place of an `unordered_map`. It is
instantiated by `SemanticScope` (symbols) and `MirFactory` (SSA variables).

**`SemanticScope`** is the scoping part of `SemanticChecker`, step by step. A node with a body
is an `Enter` action, which does what the handler does before it traverses the body and
pushes a frame, and a `Leave` action, which does the rest. `AtItem` and `InBody` say where
the parser admits a node. Types are opaque data here, and an expression is the one
identifier it mentions. `status` distinguishes the checker's own type errors from
exceptions of the standard library that it lets escape.

**`ScopedTable`** is the abstract specification: no stack, but for each name what it is
bound to and how deep. `ImplementsTable` is the refinement.

**`SymbolTypes`**, **`TypePromoter`**, **`ExpressionChecker`**: symbol data, their resolution and
comparison, promotion, and the visitors of expressions with the checks of
`SemanticValidator`. **`ProgramChecker`** has the visitors of statements and items over a
checker state with scopes, the shared struct objects and the annotation queue;
**`AnnotationQueue`** drains it. A struct type is a reference into `structs`, so that a method
that is added later is seen by all who refer to it, as with the `shared_ptr` of the code.

### Back ends

**`CppBackend`**: a visitor yields the tokens of the C++ it writes. `m_terminate` is the
parameter `terminate`. An exception that a visitor throws is a token of its own
(`Raises`). **`CppReading`** parses such tokens by the precedences of C++.

**`MirFactory`**: operators that take and return the factory, one for each method.
**`MirBuilder`**: the visitors as actions. `visible` holds the names that the scopes of the
semantic checker would hold, so that the statements are those of programs that passed it.
What `merge_envs` visits depends on the order of an `unordered_map`; the model chooses a
set of entries (`reached`). `Merging` takes the entries in the order of a `SetToSeq`, which
fixes the order of the phis; no property depends on it. The post expression of a loop is
translated in front of the body, although the checker visits it behind the body and in the
body's scope: `PostNames` are the names it may have then, the frame of the loop keeps the
one it has, and `LeaveLoop` requires that the body has declared it by its end. `taken` is a
history variable, with the names that were found before their bodies declared them.
`profile` selects the features of a program: TLC then explores several families of programs
in one run.

**`LlvmBackend`** extends `MirBuilder`: when the module is done, `Visit` translates a function
at a time and `Verify` asks what `llvm::verifyModule` asks (terminators, operands that
dominate, the edges of a phi, agreeing types, a returned value of the type the function was
declared with). Nothing in front of the verifier compares what is returned with that type
(`semantic_checker.cpp:405`), so `Build` chooses it. A value is a constant or the place of
the instruction that computes it. `MirTrace` and `LlvmTrace` run the MIR and the LLVM code along
a path: the conditions that were tested and the result, as terms over the constants.

### Compositions

**`Expressions`** takes one expression through parser, checker and C++ backend. It is written
token by token, and no further once the parser would object.

**`Driver`** is what `main` promises of one run: units in order, phases in order, which phase
can fail in which way, an answer in the end. **`Pipeline`** is `run()` with the real parser,
checker and backend in it, over projects of several sources; the preprocessor and the lexer
only decide whether a text is refused. Texts are written phrase by phrase. The C++ compiler
and the commands that tell its flags may or may not succeed. `ImplementsDriver` is the
refinement.

The `MC*` modules only give small values to constants. The modules `*Proofs` and
`StepwiseRecursion`, which they share, are the subject of section 5.

## 4. Runs

Passing runs:

| run | bounds | shows |
|---|---|---|
| `MCSemanticScope` | 2 names, one datum of each kind (2 structs), 3 nested bodies, 2 parameters | scoping: no shadowing, scopes, attributes and `self` match the open handlers, symbols are permanent, refinement of `ScopedTable`. Two names are needed for conflicts between them, depth 3 for a branch inside of a loop inside of a method |
| `MCLexer` | texts of up to 4 characters out of `" \ ' a` and a second line; a char literal over a line end, and a second line of up to 5 out of `" a` and blank; of two lines of up to 3 out of `/ * = a`; of a line of up to 5 out of `0 1 x a . _` and blank; asserts compiled out | string spans with escapes; comment spans, also of `/*/`; line breaks survive; tokens tile the text and are as long as they can be; the loop ends, unless a string is open at a line end |
| `MCPreprocessor` | every file of up to 5 lines of text and conditionals; main of up to 3, a library of up to 2 lines and a third file that include one another; nesting limit 3 | text outside of conditionals survives; `include_once` means once; only taken branches include; expansion ends. A limit of 3 makes circles hit it within a few steps, as 255 does in the code |
| `MCParserContext` | constructs nested 5 deep | no stale context; `self` in methods |
| `MCExpressions` | every token sequence of 4 to 9 tokens over seven groups of operators that interact (infix and prefix, parentheses, subscripts, casts, members, pointers, calls) | `TokensKept`: the tree holds every token once, for all the places where the cursor is moved back. `FollowsTable`: it is the tree that the binding powers define. `BindingsAgree`: declaration and assignment accept the same values. `CppKeepsStructure`: C++ reads the output as the tree. `AcceptedIsEmitted`: what passes the checker can be emitted |
| `MCPipeline` | five projects of one to four sources, each written with up to 3 phrases of statements or items; with and without Lua and Python | `StatementsEnd`, `VariablesAreTyped`, `MethodsAreDeclared`, `BindingsAreDefined`: what is emitted for a program; `OutputsAreKept`: units do not take one another's output away; `ImplementsDriver`: with every failure that a phase can have |
| `MCMirBuilder` | eleven families of programs: all features with 2 statements and nesting 2; computing assignments in 2 functions; nested branches of 4 statements; 2 functions of 4 statements with globals named like a local of the other; 2 functions of 4 statements with loops whose post expressions name what a body declares; and six for the LLVM backend (lines, copies, comparisons mixed with arithmetic, branches, loops, several functions; lines, copies and mixtures in functions that are declared to return an integer, a boolean or something else); paths of 2 conditions and 8 blocks | single assignment, reads of existing variables, blocks linked, names bound, merges behind if/else; compiled code does what the MIR says along every path (`CompiledBehavesAsBuilt`); functions do not use one another's values (`ValuesAreOwn`); straight code that returns what it declares is compiled (`StraightIsCompiled`). Two functions and four statements are needed for a post expression that finds what a branch of another function has left behind; a phi of it, which `ReadsAreProduced` excepts, needs one more and is left to the proof |

Runs that are expected to find a violation, because the repository says something that
the code does not do. Each is listed with the quotation under `findings` in
`PROJECT.json`:

| run | what happens |
|---|---|
| `MCPreprocessorGuard` | text of the branch that is not taken is emitted |
| `MCParserNested` | `break` behind an inner loop is refused |
| `MCExpressionsCpp` | the sign of a sum in parentheses becomes the sign of its first term |
| `MCMirDominance` | behind a loop a variable of its body is read |
| `MCMirPost` | the post expression of a loop assigns to a variable of the body, and the builder throws |

The models show more such places, for which there is no run because they are plain to see
in the source once one looks.

* Front end: an unterminated string reaches the assertion that it cannot
  (`lexer.cpp:495`), and in a release build the loop never ends; the `#<else` of a skipped
  inner conditional flips the outer one (`preprocessor.cpp:303`); a cast behind an operator
  that binds more tightly is taken back by too few tokens (`pratt_parser.cpp:611`); only one
  postfix operator is taken behind another one or behind a prefix operator
  (`pratt_parser.cpp:709`); `()` and a leading comma are accepted.
* Checker: the body of a `defer`, the conditions of cases and the values of an enum are not
  visited; `return;` ends the run with an exception; a struct that refers to itself through a
  pointer is converted without end; a method of a struct that was declared before it was
  defined is added to the declaration; `let` does not look behind a variable.
* C++ backend: a name that is a statement is not ended by a semicolon; an assignment in the
  header of a `loop` brings one too many; functions exported by one unit are bound again in
  the next; the output option names no output without a binding; a C++ compiler that fails
  does not change the exit code.
* MIR builder: an assignment in an `if` without `else` is lost (`mir_builder.cpp:93`); its
  conditional jump has one target (`mir_builder.cpp:60`, against `mir.hpp:145`); a call has
  null operands in front of its arguments and no result (`mir_builder.cpp:943`, against
  `mir.hpp:165`); `%=` does not update the name (`mir_builder.cpp:535`); a loop without a
  condition makes the builder throw (`mir_builder.cpp:118`, while `semantic_checker.cpp:342`
  calls it an endless loop); a phi's variable is recorded with the block of another
  (`mir_module_factory.cpp:577`); the scope of a branch leaks through a merge, and a later
  binding of the same name throws (`mir_builder.cpp:85`); an assignment to a global throws
  (`mir_builder.cpp:551`), unless that scope, which also outlives its function, has an entry
  of the same name: then the entry is taken, and a phi behind the next `if` may read a
  variable of the other function.
* LLVM backend: a sum is compiled as a difference (`llvm_backend.cpp:672`, against
  `mir.hpp:101`); `>=` compares addresses; calls, `continue` and `break` are skipped; a
  function with parameters, an `if` without `else` and a `return` without a value throw; the
  phis of `and` and `or` have no blocks, and the backend throws; a function that returns
  something else than it declares passes the checker and makes the module invalid; a
  function that is given up leaves its tables to the next; an invalid module is reported and
  the exit code is OK.

The passing properties around these places are stated so that they say what does hold, and
name the exceptions one by one: `RegularIncludes` for sources without nested conditionals
and without a directive right below an `#<endif`, `TextSurvives` for text not right below an
`#<endif`, `Terminates` of the lexer up to a string at its line end, `IfElseMerges` for an
`if` with both branches, `FollowsTable` and `TokensKept` up to stalled postfix operators and
casts that are taken back, `StatementsEnd` up to names and loop headers, `ReadsAreProduced` up
to the nulls of calls and the phis of leftover entries, `ValuesAreOwn` up to functions that
were given up. Exceptions are stated as equivalences where that is possible
(`CppKeepsStructure`, the loop header in `StatementsEnd`), so that they are shown to happen.
The families of programs for the LLVM backend leave out sums and `>=`, which are compiled
wrongly as said above, and what is skipped.

`SymbolsArePermanent`, `IfElseMerges` and `OutputsAreKept` are action properties;
`ImplementsTable` and `ImplementsDriver` are refinements.

### Fairness

The lexer and the preprocessor have the liveness property `Terminates` under weak fairness
of `Next`: both are plain loops that nothing can interrupt, so that the program goes on as
long as it can take a step. `Driver` has weak fairness of `Next` for the same reason, and
says with it that each run ends with an answer. `Pipeline` implements that: its fairness is
that of the run itself (`BeginText`, `Start` and `Run`), and not of `Write`, because nobody
has to write more text. One of these actions is enabled as long as there is no outcome, so
that weak fairness of their disjunction is
`[]<>(outcome # "running") \/ []<><<BeginText \/ Start \/ Run>>_vars`, which spares TLC to
evaluate `ENABLED` of a whole phase. No fairness is assumed of single actions, and none of
the C++ compiler succeeding.

### Bounds

`MaxFrames`, `MaxParams`, `MaxDepth`, `MaxTokens`, `MaxPath`, `MaxVisits`, the lengths in
`Languages` and `Projects` and the sizes in `Profiles` bound programs and paths and exist
only in the models. `MaxNesting`, `MaxDigits`, `MaxHex` and `MaxFloat` are limits of the
code (255 includes; what `std::stoi`, `std::stoul` and `std::stod` accept), made small so that
they are reached. Whether `std::stod` throws on a literal longer than `MaxFloat` depends on
its digits, so the model has both outcomes.

Why they are enough: an expression of 6 tokens has three operators or two with parentheses,
so that each pair of operators meets in both orders and one of them can be handed back over
another; a cast takes four tokens, hence 9. Three phrases in a body are a declaration, a
construct around it and a use. Two units are needed for what is left in the backend, and
four for a stem that occurs twice, another one and a file that is missing.

## 5. Proofs

Every theorem is for all values of the constants that meet the named assumptions of its
module; TLC evaluates these on every run. The bounds of section 4 (`MaxFrames`, the sizes in
`Profiles`, ...) are constants too, so that the theorems hold for programs of any size.

**`StepwiseRecursion`** stands in for induction, whose library theorems take operators as
parameters. `LeastElement` gives the minimal counterexample. From it follow `Upwards` (what
holds of 0 and passes from each number to the next holds up to n), `GreatestElement`, and
`Solution`: a recursion from one argument to the next has a solution of the expected type,
so that the recursive functions of the models can be reasoned about step by step.

**`SemanticProofs`** has the proofs about the checker. Of `SemanticScope` it proves, for every
set of names, data and attributes, from `ScopeAssumption` alone (the empty entry is no name,
symbol or datum; the bounds are naturals), every property of `MCSemanticScope`.

* `TypeCorrect`, `NoShadowingHolds`, `SymbolsPermanent`. `TypeOK` and `NoShadowing` are not
  inductive. A step that pops the scope stack must know that it does not empty it, so
  `ScopeInv` adds that the stack is not empty; `BindParams` must keep names in one scope,
  which needs that a bound name is completed where it is. The lemmas about `Declare`,
  `Define`, `BindParams`, `PushEnv` and `PopEnv` say what each does to the scopes;
  `ScopeInvHolds` has one step per action on top of them.
* `ScopesMatchFramesHold`, `AttributesMatchFramesHold`, `SelfOnlyInMethodHolds`. They count
  the suspended handlers of some kinds; `CountPush` and `CountPop` say how the number changes
  when a handler is suspended or resumed, and `PushFrames`, `PopFrames` and `ElseFrames` turn
  that into the invariant for any kind of handler. `FrameInv` adds `ItemsBelowAttributes`: a
  method resets `m_active_struct` instead of restoring it, and that is only right because
  below an item there is nothing but attributes.
* `TableImplemented`, the refinement `ImplementsTable`. Without shadowing a lookup finds the
  one entry there is (`Located`, `Unlocated`), so the mapped table and levels can be read off
  the scopes. Each operator on them does one of four things to a name: it stays, it is
  bound, its declaration is completed (`Records`), or it is dropped with its scope (`Drops`).
  A handler step is the step of the table of that kind, or a stutter; the end of the program
  is the abstract reset because no handler is open then and the stack is one scope deep
  (`ScopesMatchFrames`).
* Of `TypePromoter::promote` over all native types it proves what the checker relies on:
  `PeakIsCommutative`, `PeakHoldsBoth`, `PromotionIsTransitive` and `PromotionIsAnOrder`. They
  follow from `Ladder`: the integer types have different ranks. (That the ranks are not
  widths, so that an `i8` takes an `int`, contradicts none of them.)

**`LexerProofs`** proves every safety property of `MCLexer` for every text, with asserts or
without. `LexerAssumption` is what the code says of characters: `Digit` and `HexDigit` are
the classes of `isdigit` and `isxdigit`, letters and hexadecimal digits are no blanks,
punctuation or end of text, and no symbol of two characters (`token/reserved/reserved.hpp:292`)
ends in a blank, a line break or a quote. `TextAssumption` is what `TextBuffer` makes of a
source: lines that are not empty, each ended by its only line break.

* `LexerInv` says where each scanning function may stand (`ScanInv`): what it has seen since
  it was called. `CursorStaysOnText`, `TokensAreMaximal` and `CommentsEndWhereTheyClose`
  follow from it step by step.
* `StringsEndWhereTheyClose` compares the scanning functions with a reader that only knows
  quotes and backslashes: `ReaderInv` says that both agree where they are outside of strings
  and inside of one, on texts whose strings are closed on their line. A char literal may
  run over the end of its line and take the first character of the next line for its closing
  quote, so `StringsClosed` leaves out the texts where that next line has strings
  (`ClosedBehind`; the proof needs it, `'` at a line end before a line of four `"` is the
  counterexample).
* `LineBreaksAreKept` and `EveryCharacterIsLexedOnce` are stated with the frontier, up to
  which the text has been lexed: `LinesInv` relates it to the last token, and `TilesInv` says
  that every character that is not blank and lies before it is in exactly one token.

**`PreprocessorProofs`** proves every safety property of `MCPreprocessor`, for every file
system, every set of macros and every limit, from `PreprocessorAssumption` (the limit is
positive; a file system maps some paths, the main one among them, to lines).

* `ExpansionIsBounded`: also with circular includes the recursion is never empty and never
  deeper than the limit. `PreprocessorInv` adds that the files being expanded exist, without
  which nothing is known of the path that `include_once` registers.
* `StackInvHolds` has what the other three need. The steps fall into four kinds: the cursor
  moves, a file is opened, a file ends, nothing moves. What the cursor does in a file
  depends on the lines of the file and the macros alone (`Walk`, a recursive function), so
  each open file is where that takes it (`Walking`) and stands on the line that opened the
  next (`Chained`). A file that is open twice would therefore come back to the same line
  again and again: the inner cursor never passes the outer one (`Ordered`) and never gets to
  its end, and a file that `include_once` has open is not registered (`Unregistered`).
* `TextReachesTheOutput`, `IncludesAreRegular` and `IncludedOnceIsOnce` add one invariant
  each: `SurvivesInv` (the lines above the cursor of the main file), `RegularInv` (the
  conditionals are those around the line), `OnceInv` (which lines of a file the output has,
  while the file is open once, and when it is closed).

**`MirBuilderProofs`** proves `VariablesAreAssignedOnce`, `NothingIsReadUnproduced`,
`LocalsKeepTheirVariables`, `EveryBlockIsReached` and `BranchesMeet` (the action property
`IfElseMerges`), for every set of names, every nesting depth and any number of statements and
functions, from `MirAssumption` (the names of a program are among finitely many; an absent
entry is no site of a variable). The first four follow from one inductive invariant, `MirInv`,
in which `Loose` are the names whose leftovers a statement may find, the globals and those in
`taken`:

* `Sound` is the state of the emitted code: results are fresh and single, and each read is
  of a parameter or of an earlier result.
* Lookups yield variables of this function. That is not true of the whole environment: an
  `if` with an `else` leaves a scope behind that outlives the function. So there is a depth
  `base` up to which the scopes are leftovers. Above it every entry is a variable that this
  function has produced (`Live`), and below it nothing changes but the variables of globals
  and of names in `taken` (`Below`), which is the exception that `ReadsAreProduced` makes: an
  assignment to either can find an entry that is no local in scope.
* `Bound` says that each name in scope has an entry above the base that survives the pops of
  the visits around it, and `Suspended` says the same of the environments that an `if` has put
  aside, which are put back or merged when a branch ends. `LocalsKeepTheirVariables` is about
  the state in which a lookup has failed, too: what was looked up in vain is then no local in
  scope. That all lookups succeed (`LookupsSucceed`) is false, see `MCMirPost`.
* `Linked` is about blocks. The two blocks of a loop get their edges when the loop ends, and
  until then they count as entries (`Roots`); the condition that will name them can be reached
  from the roots in front of them. Reachability is stated without paths: a block is reached
  if every set that has the roots and is closed under edges has the block (`Reaches`).

A visitor is taken apart into the operations of the factory. `Work` is the factory in the
middle of a statement, and each operation (`Emitting`, `Reading`, `Binding`, `Updating`, ...)
leads from `Work` to `Work`; `EvalWork` composes them for expressions, `MergeEnvsWork` for the
loop over the entries of two environments, by `Solution`. The lemmas `Underway*` say what
is left of the invariant when code is added to a visit, when one is suspended and when one
is resumed; `MirStep` has one step per action. For `EveryBlockIsReached` the recursion `Reach`
is shown to end in a closed set: it adds a block in each step or is closed, and there are no
more steps than blocks.

`BranchesMeet` needs to know that both branches of an `if` end with an entry for the same
names, although an `if` with an `else` inside of a branch leaves a scope behind and
`merge_envs` may stop short in a scope of which the branches have different names
(`reached`). `BranchInv` (`BranchesAlign`) says it of every suspended visit, on top of
`MirInv`:

* Two environments have parted (`Parted`) when they have the same names in their first scopes
  (`Alike`) and, in the scopes behind these, none of the names that were visible in front of
  the `if` (`Clear`): the checker lets no branch bind a name that is visible, and a statement
  opens a scope of its own before it binds.
* The environment that an `if` has set aside has parted from the current one and from
  those that the visits inside of it have set aside (`Apart`, `Layered`). The second one has
  at least a scope more for each visit in between, so that what these pop is behind the
  common scopes.
* A statement keeps the names of every scope but for what it binds in the innermost one
  (`Renames`, `EvalRenames`), and merging keeps those of the first branch (`MergeEnvsNames`).

So a name visible in front of the `if` has its innermost entry in the same scope of both
branches, and that scope has the same names in both (`PartedMeet`): `merge_envs` walks
all of it whatever the order of the map, keeps an entry that is the same and makes a phi for
one that differs, the phis of other entries leave both alone (`Unites`, `MetIsMerged`).

**`LlvmBackendProofs`** proves `FunctionsKeepToThemselves` (the property `ValuesAreOwn`) for
modules of any number of functions, blocks and instructions, from `MirAssumption` alone. It
stands on the invariant of the builder: the composition leaves the builder's state to
`Spec` (`BuildsAsBuilder`), so that `MirInv` holds of it. `LlvmInv` adds:

* Each complete function is the code of a builder that was `Sound` (`CodeOf`). That is what
  the translation is handed, and a step of the builder cannot change it any more.
* What the backend has emitted stands in blocks that exist (`Shape`), the places in
  `m_locals` and the insertion point are places of the current function (`Sane`, `Owned`),
  and between two functions all three tables are empty (`Rest`), unless a function was given
  up or an error ended the run: both leave the tables as they are, and then `ValuesAreOwn`
  says nothing.
* Every loop of the backend is a `Loop`, and one lemma for each (`OperandsTurns`,
  `InstructionsTurns`, `AllocateTurns`, `BodyTurns`, ...) says what a turn makes of the one
  before. By `Upwards` the facts about one instruction (`OnBinaryOwn`, `OnPhiOwn`, ...) become
  facts about a block and a function (`OnBlockOwn`, `OnFunctionOwn`).

The attempt to prove `StraightIsCompiled` found it false as it was stated, beyond the bounds
of the run at that time: in `let a = 1; let b = a < a; return -b` the operands of the
negation differ in type, which the verifier rejects. It now asks that operands agree
(`OperandsAgree`) and that a function returns what it declares, and the family of programs
that mixes comparisons with arithmetic has those programs.

**`ParserContextProofs`** proves `ParserTypeCorrect`, `NoStaleContextHolds` and
`SelfInMethodsHolds`. Neither of the last two is inductive: when a method ends, the
context is cleared, and that is only right because no other method is open. `ContextInv`
adds `ItemsOutermost`: below an item on the call stack there are only attributes, so
that enums and methods never nest. (Loops do, which is the reason that the same
statement about `LOOP`, `JumpsInLoops`, is false.)

**`DriverProofs`** proves `OkMeansAllHolds` (OK is answered only if every unit went through all
of its phases) and `FailuresAreFinalHolds`, for any number of units. As `Pipeline` implements
`Driver` (`ImplementsDriver`, model-checked), they hold of its runs. `DriverInv` adds that a
unit is left while one is compiled (`UnitsLeft`) and that nothing is compiled before the
backend is configured.

Only model-checked:

* liveness, which the prover does not reach: `Terminates` of the lexer and the preprocessor,
  the answer of `Driver`, and with it the refinement `ImplementsDriver`;
* `CompiledBehavesAsBuilt` of `LlvmBackend`, which compares runs of two programs along a path,
  and `StraightIsCompiled`, which needs the types of all values, computed by a recursion over
  the MIR and again by another over the LLVM code;
* the grammar, the checker's visitors and the C++ backend (`Expressions`, `Pipeline`), which
  are recursive over trees: what they compute for every input needs induction over data.

## 6. Not modelled

* The values of literals, positions and the wording of messages; logging; the layout, the
  prologue and the bindings' text of generated code.
* The AST printer, a debugging aid; the symbol table, which no phase uses; settings, which
  are input (`Projects`); the diagnostics, which format.
* In the MIR: the table of functions with its forward declarations (a call names its
  function). The builder has no visitors for structs, arrays, pointers and casts.
* In the LLVM backend: files, the target machine, optimisation and the linker. An object
  file is opened before the translation, which no property is about. `llvm::IRBuilder` folds
  an instruction of constants into the constant it computes; the model keeps the
  instruction, which has the same value. (A constant is available in every block, so that
  LLVM accepts some modules in which the model misses a dominating value.) `usize` and `isize`
  have no LLVM type (`native_type2llvm`), and no program of the model has them.
* The text of the Python module (`PYBIND11_MODULE`, `python_backend.cpp:50`); what Lua's
  binding code does when it is called.

`components` in `PROJECT.json` says for each part which modules have it.
