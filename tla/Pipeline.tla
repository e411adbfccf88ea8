------------------------------ MODULE Pipeline ------------------------------
(***************************************************************************)
(* run(): one backend is configured, and every source is taken through its *)
(* TranslationUnit. The sources are written item by item before. What the  *)
(* Preprocessor and the Lexer do to a text is not repeated here, only that *)
(* they may refuse it. The C++ compiler, and the commands that tell its    *)
(* flags, may or may not succeed.                                          *)
(***************************************************************************)
EXTENDS AcrisParser, ProgramChecker, CppBackend

CONSTANTS
  Projects,        \* for each: sources, interops, out, phrases, frame and (bound) the length of a source
  PreprocessFails, LexFails,   \* the exceptions for what cannot be in a text
  LuaNames         \* the names that Lua takes for a module

VARIABLES project, texts, step, done, tokens, ast, structs, backend, files, outputs, outcome

vars == <<project, texts, step, done, tokens, ast, structs, backend, files, outputs, outcome>>
unitVars == <<tokens, ast, structs>>

Sources == Projects[project].sources
Source == Sources[done + 1]

Running(at) == step = at /\ outcome = "running"

(* main() reports what it catches and returns. *)
Throw(cause) == outcome' = cause /\ UNCHANGED <<step, done>>
Goto(next) == step' = next /\ UNCHANGED <<done, outcome>>

NextUnit(finished) ==
  /\ done' = finished
  /\ IF finished < Len(Sources) THEN step' = "read" /\ UNCHANGED outcome
                                ELSE outcome' = "ok" /\ UNCHANGED step

Init ==
  /\ project \in DOMAIN Projects
  /\ texts = <<>>
  /\ step = "writing" /\ done = 0 /\ outcome = "running"
  /\ tokens = <<>> /\ ast = None /\ structs = <<>>
  /\ backend = [interops |-> <<>>, out |-> "", exports |-> <<>>]
  /\ files = <<>>
  /\ outputs = <<>>

-----------------------------------------------------------------------------
(* Before the run *)

BeginText ==
  /\ Running("writing") /\ Len(texts) < Len(Sources)
  /\ texts' = Append(texts, <<>>)
  /\ UNCHANGED <<project, step, done, unitVars, backend, files, outputs, outcome>>

(* The parser has no objection to a text but that it ends. *)
Viable(text) == Parse(Projects[project].frame[1] \o FlattenSeq(text)).err \in {"none", "eos"}

Write(phrase) ==
  /\ Running("writing") /\ texts # <<>> /\ Len(texts[Len(texts)]) < Projects[project].length
  /\ Viable(texts[Len(texts)])
  /\ texts' = [texts EXCEPT ![Len(texts)] = Append(@, phrase)]
  /\ UNCHANGED <<project, step, done, unitVars, backend, files, outputs, outcome>>

Start ==
  /\ Running("writing") /\ Len(texts) = Len(Sources)
  /\ Goto("configure")
  /\ UNCHANGED <<project, texts, unitVars, backend, files, outputs>>

-----------------------------------------------------------------------------
(* make_build_unit() *)

(* The name of a module is the stem of the output path, or of a.out. *)
ModuleName == IF Projects[project].out = "" THEN "a" ELSE Projects[project].out
Suffix == [python |-> ".cpython.so", lua |-> ".so"]

Register ==
  /\ Running("configure") /\ Len(backend.interops) < Len(Projects[project].interops)
  /\ LET language == Projects[project].interops[Len(backend.interops) + 1]
     IN  \E found \in BOOLEAN :
           IF language \notin DOMAIN Suffix THEN Throw("standard") /\ UNCHANGED backend
           ELSE IF ~found THEN Throw("internal") /\ UNCHANGED backend
           ELSE IF language = "lua" /\ ModuleName \notin LuaNames THEN Throw("diagnostic") /\ UNCHANGED backend
           ELSE /\ backend' = [backend EXCEPT !.interops = Append(@, language), !.out = ModuleName \o Suffix[language]]
                /\ UNCHANGED <<step, done, outcome>>
  /\ UNCHANGED <<project, texts, unitVars, files, outputs>>

Configured ==
  /\ Running("configure") /\ Len(backend.interops) = Len(Projects[project].interops)
  /\ NextUnit(0)
  /\ UNCHANGED <<project, texts, unitVars, backend, files, outputs>>

-----------------------------------------------------------------------------
(* TranslationUnit::execute() *)

\* Mutant: a file that is missing is skipped.
ReadFileSkips ==
  /\ Running("read")
  /\ IF Source.missing THEN NextUnit(done + 1) /\ UNCHANGED unitVars
     ELSE /\ Goto("preprocess")
          /\ tokens' = Projects[project].frame[1] \o FlattenSeq(texts[done + 1]) \o Projects[project].frame[2]
          /\ ast' = None /\ structs' = <<>>
  /\ UNCHANGED <<project, texts, backend, files, outputs>>

ReadFile ==
  /\ Running("read")
  /\ IF Source.missing THEN Throw("standard") /\ UNCHANGED unitVars
     ELSE /\ Goto("preprocess")
          /\ tokens' = Projects[project].frame[1] \o FlattenSeq(texts[done + 1]) \o Projects[project].frame[2]
          /\ ast' = None /\ structs' = <<>>
  /\ UNCHANGED <<project, texts, backend, files, outputs>>

(* The first of the tokens that cannot be dealt with decides. *)
Scan(next, fails) ==
  LET bad == {i \in DOMAIN tokens : tokens[i] \in DOMAIN fails}
  IN  IF bad = {} THEN Goto(next) ELSE Throw(fails[tokens[CHOOSE i \in bad : \A j \in bad : i <= j]])

Preprocess ==
  /\ Running("preprocess")
  /\ Scan("lex", PreprocessFails)
  /\ UNCHANGED <<project, texts, unitVars, backend, files, outputs>>

Lex ==
  /\ Running("lex")
  /\ Scan("parse", LexFails)
  /\ UNCHANGED <<project, texts, unitVars, backend, files, outputs>>

ParseUnit ==
  /\ Running("parse")
  /\ \E s \in {Parse(tokens)} :
         IF Raised(s) THEN Throw(IF s.err = "eos" THEN "internal" ELSE "diagnostic") /\ UNCHANGED ast
         ELSE Goto("semantic") /\ ast' = s.node
  /\ UNCHANGED <<project, texts, tokens, structs, backend, files, outputs>>

(* The annotated tree takes the place of the tree. No MIR is made for the CppBackend. *)
Semantic ==
  /\ Running("semantic")
  /\ \E c \in {Check(ast)} :
         IF Aborted(c) THEN Throw(IF c.err = "overflow" THEN "crash" ELSE c.err) /\ UNCHANGED <<ast, structs>>
         ELSE Goto("codegen") /\ ast' = c.node /\ structs' = c.structs
  /\ UNCHANGED <<project, texts, tokens, backend, files, outputs>>

-----------------------------------------------------------------------------
(* CppBackend::compile() *)

Languages == {backend.interops[i] : i \in DOMAIN backend.interops}
LuaTypes == {"f64", "i64", "u64", "cstr", "bool"}

(* A parameter that Lua has no counterpart for; a result of such a type is dropped.  Structs are the only *)
(* types with a name of their own that a parameter can have: str2symbol_data() refuses an enum. *)
Unbound(export) ==
  export.language = "lua" /\ \E i \in DOMAIN export.type.params :
                               NativeType(export.type.params[i]) \cap LuaTypes = {}

Generated == Emit([structs |-> structs, interops |-> Languages], Emission(backend.exports), ast, TRUE)

(* The file is opened before anything can fail, and has the prologue at least. *)
Generate ==
  /\ Running("codegen")
  /\ \E st \in {Generated} :
       LET raised == {i \in DOMAIN st.code : st.code[i] \in Raises}
           first == st.code[CHOOSE i \in raised : \A j \in raised : i <= j]
           File(code, bound) == [unit |-> done + 1, code |-> code, bound |-> bound]
           Store(file) == files' = [stem \in DOMAIN files \cup {Source.stem} |-> IF stem = Source.stem THEN file ELSE files[stem]]
       IN  /\ backend' = [backend EXCEPT !.exports = st.exports]
           /\ CASE raised # {} -> Throw(IF first = Raise("internal") THEN "internal" ELSE "standard") /\ Store(File(<<>>, <<>>))
                [] raised = {} /\ (\E i \in DOMAIN st.exports : Unbound(st.exports[i])) ->
                     Throw("diagnostic") /\ Store(File(st.code, <<>>))
                [] OTHER -> Goto("compile") /\ Store(File(st.code, st.exports))
  /\ UNCHANGED <<project, texts, unitVars, outputs>>

\* Mutant: all outputs have one name.
OutputNameFixed == IF backend.out = "" THEN "a.out" ELSE backend.out

(* The output option is not asked: the output is named after the source, or after the module. *)
OutputName == IF backend.out = "" THEN Source.stem \o ".out" ELSE backend.out

(* The compiler's own name is asked for first; what it returns is printed. *)
Compile ==
  /\ Running("compile")
  /\ \E found, compiled \in BOOLEAN :
       /\ IF found THEN NextUnit(done + 1) ELSE Throw("internal")
       /\ outputs' = IF ~(found /\ compiled) THEN outputs
                     ELSE [name \in DOMAIN outputs \cup {OutputName} |->
                             IF name = OutputName THEN done + 1 ELSE outputs[name]]
  /\ UNCHANGED <<project, texts, unitVars, backend, files>>

Unit == ReadFile \/ Preprocess \/ Lex \/ ParseUnit \/ Semantic \/ Generate \/ Compile

Run == Register \/ Configured \/ Unit

Next == BeginText \/ (\E p \in Projects[project].phrases : Write(p)) \/ Start \/ Run

(* The run never waits for anything. One of these actions is enabled as long as the outcome is open, so *)
(* this is their weak fairness with ENABLED spelled out. *)
Fairness == []<>(outcome # "running") \/ []<><<BeginText \/ Start \/ Run>>_vars

Spec == Init /\ [][Next]_vars /\ Fairness

-----------------------------------------------------------------------------

(* A run is one that main() promises: the units in their order, each step once, one of the exceptions *)
(* that the step can throw, and in the end an answer. *)
D == INSTANCE Driver WITH units <- Len(Sources), step <- IF step = "writing" THEN "configure" ELSE step
ImplementsDriver == D!Spec

-----------------------------------------------------------------------------
(* What is emitted for a tree *)

(* The lists of statements right below a node. *)
BlocksOf(n) ==
  CASE n[1] \in {"List", "SwitchElse", "Defer"} -> {IF n[1] = "List" THEN n ELSE n[2]}
    [] n[1] = "If"         -> {n[i] : i \in {4, 5}} \ {None}
    [] n[1] = "Loop"       -> {n[5]}
    [] n[1] \in {"Switch", "SwitchCase"} -> {n[3]}
    [] n[1] = "Function"   -> {n[2][4]}
    [] n[1] = "Method"     -> {n[3][4]}
    [] n[1] = "Attribute"  -> {n[4]}
    [] OTHER               -> {}

RECURSIVE Nodes(_)
Nodes(n) == {n} \cup UNION {UNION {Nodes(block[i]) : i \in 2 .. Len(block)} : block \in BlocksOf(n)}

Accepted == step \in {"codegen", "compile"}
X == [structs |-> structs, interops |-> Languages]
CodeOf(n, terminate) == Emit(X, Emission(<<>>), n, terminate).code
Throws(code) == \E i \in DOMAIN code : code[i] \in Raises

(* The statements of a defer that was written without braces, and of any other block. *)
Deferred == UNION {{n[2][i] : i \in 2 .. Len(n[2])} : n \in {m \in Nodes(ast) : m[1] = "Defer"}}

EndsItself(code) == code = <<>> \/ code[Len(code)] \in {";", "}"} \/ Throws(code)

Semicolons(code) == Cardinality({i \in DOMAIN code : code[i] = ";"})

(* What stands in the header of a loop is separated by the semicolons of the header alone. *)
HeaderHolds(n) == Semicolons(CodeOf(n, TRUE)) = Semicolons(CodeOf(n[5], TRUE)) + 2

(* In the C++ code every statement ends in front of the next one, and the header of a loop has its two *)
(* semicolons. Two kinds of statements do not: a name, or self, that stands for itself (the code of the *)
(* next statement is then written right behind the name), and an expression that is deferred and no call. *)
(* The assignment of a loop always brings a semicolon of its own into the header. *)
StatementsEnd ==
  Accepted =>
    \A n \in Nodes(ast) :
      /\ n # ast /\ ~EndsItself(CodeOf(n, TRUE)) =>
           \/ n[1] \in {"Identifier", "Self"}
           \/ n \in Deferred /\ n[1] \notin {"FunctionCall", "MemberAccess", "ArrayExpr"}
      /\ n[1] = "Loop" => (HeaderHolds(n) <=> (n[4] = None \/ n[4][1] # "Assignment"))

InDefer(n) == UNION {Nodes(m) : m \in {k \in Nodes(n) : k[1] = "Defer"}}

IsFunction(d) == ResultType([structs |-> structs], d).kind = "fn"

(* Every variable is emitted with the type that was checked, so never with none and never with void, *)
(* except for a variable that holds a function, which has no type in C++, and one that is bound in a *)
(* defer, whose body the checker does not visit. *)
VariablesAreTyped ==
  Accepted =>
    \A n \in Nodes(ast) :
      n[1] \in {"Let", "Var"} =>
        LET type == Annotation(n, 5)
        IN  CppType(structs, type) \in {<<>>, <<"void">>} => n \in InDefer(ast) \/ IsFunction(type) \/ n[3] = <<"TypeName", "void">>

MethodsNamed(name) == {n \in Nodes(ast) : n[1] = "Method" /\ n[2] = name}
StructsNamed(name) == {n \in Nodes(ast) : n[1] = "Struct" /\ n[2] = name}
DeclaredBefore(name) == \E n \in Nodes(ast) : n[1] = "StructDecl" /\ n[2] = name

(* C++ wants a method declared in its struct: each method of a struct that is defined is, also if it *)
(* comes behind the struct, with the parameters and the result it is defined with. That fails for a name *)
(* that is given to two methods, and for a struct that was declared before it was defined: the methods *)
(* are kept with the declaration. *)
MethodsAreDeclared ==
  Accepted =>
    \A s \in {n \in Nodes(ast) : n[1] = "Struct"} :
      \A m \in MethodsNamed(s[2]) :
        LET methods == structs[s[4].struct].methods
            name    == m[3][1]
        IN  \/ name \in DOMAIN methods /\ methods[name] = m[4]
            \/ DeclaredBefore(s[2])
            \/ \E other \in MethodsNamed(s[2]) : other # m /\ other[3][1] = name

FunctionsOf(text) == {text[i][2] : i \in {j \in DOMAIN text : text[j][1] = "func"}} \cup
                     UNION {{text[j][k + 1] : k \in {l \in 1 .. (Len(text[j]) - 1) : text[j][l] = "func"}} : j \in DOMAIN text}

(* The bindings at the end of a file are those of functions that the file defines, or one that was *)
(* compiled before it in the same run: what was registered is never forgotten. *)
BindingsAreDefined ==
  \A stem \in DOMAIN files :
    LET file == files[stem]
    IN  \A i \in DOMAIN file.bound : \E k \in 1 .. file.unit : file.bound[i].name \in FunctionsOf(texts[k])

(* A unit takes the output of another one away only if both have the same stem, or a binding is made: *)
(* then all units have one output. *)
OutputsAreKept ==
  [][\A name \in DOMAIN outputs :
       /\ name \in DOMAIN outputs'
       /\ outputs'[name] # outputs[name] =>
            backend.out # "" \/ Sources[outputs'[name]].stem = Sources[outputs[name]].stem]_vars
=============================================================================
