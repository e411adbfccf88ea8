----------------------------- MODULE CppBackend -----------------------------
(***************************************************************************)
(* CppBackend: the C++ code of an annotated tree, as a sequence of tokens. *)
(* A node that cannot be translated leaves a token that stands for the     *)
(* exception: what is behind the first of them is never written. The       *)
(* parameter terminate is the top of the stack m_terminate.                *)
(***************************************************************************)
EXTENDS TokenStream, SymbolTypes, SequencesExt

LOCAL INSTANCE TLC

Raise(how) == "raise " \o how
Raises == {Raise("internal"), Raise("standard")}

(* A type that was not annotated is the first alternative of the variant. *)
Annotation(node, i) == IF Len(node) >= i THEN node[i] ELSE Native("void")

\* Mutant: a type is missing.
NativeCppShort ==
  [void |-> "void", int |-> "int_t", i16 |-> "i16_t", i32 |-> "i32_t", i64 |-> "i64_t",
   isz |-> "isize_t", uint |-> "uint_t", u8 |-> "u8_t", u16 |-> "u16_t", u32 |-> "u32_t",
   u64 |-> "u64_t", usz |-> "usize_t", char |-> "char", cstr |-> "cstr", bool |-> "bool"]

NativeCpp ==
  [void |-> "void", int |-> "int_t", i8 |-> "i8_t", i16 |-> "i16_t", i32 |-> "i32_t", i64 |-> "i64_t",
   isz |-> "isize_t", uint |-> "uint_t", u8 |-> "u8_t", u16 |-> "u16_t", u32 |-> "u32_t",
   u64 |-> "u64_t", usz |-> "usize_t", char |-> "char", cstr |-> "cstr", bool |-> "bool"]

(* type_spec2cpp(): floating point types are refused, and the type of a function is empty. *)
RECURSIVE CppType(_, _)
CppType(structs, d) ==
  CASE d.kind = "native" -> IF d.native \in DOMAIN NativeCpp THEN <<NativeCpp[d.native]>> ELSE <<Raise("internal")>>
    [] d.kind = "enum"   -> <<d.enum>>
    [] d.kind = "struct" -> <<structs[d.struct].name>>
    [] d.kind = "fn"     -> <<>>
    [] d.kind = "ptr"    -> (IF d.readonly THEN <<"const">> ELSE <<>>) \o CppType(structs, d.to) \o
                            [i \in 1 .. d.depth |-> "*"]
    [] d.kind = "array"  -> <<"Array", "<">> \o CppType(structs, d.elem) \o <<",", ToString(d.size), ">">>
    [] d.kind = "var"    -> CppType(structs, d.type)

Paren(code) == <<"(">> \o code \o <<")">>
Semicolon(terminate) == IF terminate THEN <<";">> ELSE <<>>
Commas(parts) == FlattenSeq([i \in DOMAIN parts |-> IF i = 1 THEN parts[i] ELSE <<",">> \o parts[i]])

-----------------------------------------------------------------------------
(* Expressions. Infix operators have their operands in parentheses, and none around themselves. *)

RECURSIVE Code(_, _, _)

CallCode(e, args, end) == <<e[2]>> \o Paren(args) \o end

\* Mutant: the right hand side of an infix operator has no parentheses.
InfixCodeBare(left, op, right) == Paren(left) \o <<op>> \o right

InfixCode(left, op, right) == Paren(left) \o <<op>> \o Paren(right)

OperatorCode(e, Of(_), end) ==
  CASE e[1] \in {"Arithmetic", "Comparison", "And", "Or"} -> InfixCode(Of(e[3]), e[2], Of(e[4]))
    [] e[1] = "Assignment"  -> Of(e[3]) \o <<e[2]>> \o Of(e[4]) \o <<";">>
    [] e[1] = "Increment"   -> Of(e[2]) \o <<"++">> \o end
    [] e[1] = "Decrement"   -> Of(e[2]) \o <<"--">> \o end
    [] e[1] = "Dereference" -> <<"*">> \o Paren(Of(e[2]))
    [] e[1] = "UnaryPrefix" -> Paren(<<e[2]>> \o Of(e[3]))
    [] e[1] = "Not"         -> Paren(<<"!">> \o Of(e[2]))

(* An array is the first member of its object. *)
AddressCode(operand, of) ==
  LET type == Annotation(operand, 3)
  IN  IF operand[1] # "Identifier" THEN <<"&">> \o Paren(of)
      ELSE IF type.kind # "var" THEN <<Raise("standard")>>
      ELSE IF type.type.kind = "array" THEN Paren(of \o <<".", "m_data">>)
      ELSE <<"&">> \o Paren(of)

CastCode(structs, e, of) == <<"static_cast", "<">> \o CppType(structs, Annotation(e, 4)) \o <<">">> \o Paren(of)

ArrayCode(structs, e, elems, end) ==
  <<"InitList", "(", "(">> \o CppType(structs, Annotation(e, 3)) \o <<"[", "]", ")", "{">> \o
  elems \o <<"}", ",", ToString(Len(e[2]) - 1), ")">> \o end

Code(structs, e, terminate) ==
  LET Of(part)   == IF part = None THEN <<>> ELSE Code(structs, part, FALSE)
      Args(list) == Commas([i \in 1 .. (Len(list) - 1) |-> Of(list[i + 1])])
      end        == Semicolon(terminate)
  IN  CASE e[1] \in {"Identifier", "Literal"} -> <<e[2]>>
        [] e[1] = "Self"            -> Paren(<<"*", "this">>)
        [] e[1] = "ScopeResolution" -> <<e[2], "::">> \o Of(e[3])
        [] e[1] \in {"FunctionCall", "MethodCall"} -> CallCode(e, Args(e[3]), end)
        [] e[1] = "MemberAccess"    -> Of(e[2]) \o <<".">> \o Of(e[3]) \o end
        [] e[1] = "Subscript"       -> Of(e[2]) \o <<"[">> \o Of(e[3]) \o <<"]">>
        [] e[1] = "ToCast"          -> CastCode(structs, e, Of(e[2]))
        [] e[1] = "AddressOf"       -> AddressCode(e[2], Of(e[2]))
        [] e[1] = "ArrayExpr"       -> ArrayCode(structs, e, Args(e[2]), end)
        [] OTHER                    -> OperatorCode(e, Of, end)

-----------------------------------------------------------------------------
(* Statements and items. x has the structs and the interop backends; an emission st goes from node to *)
(* node with the text of the last one (code), the number of defers, and what was registered for export. *)

Emission(exports) == [code |-> <<>>, defers |-> 0, exports |-> exports]
Text(st, code) == [st EXCEPT !.code = code]

RECURSIVE Emit(_, _, _, _)

RECURSIVE EmitFrom(_, _, _, _, _)
EmitFrom(x, st, list, terminate, i) ==
  IF i > Len(list) THEN st
  ELSE LET r == Emit(x, st, list[i], terminate)
       IN  EmitFrom(x, Text(r, st.code \o r.code), list, terminate, i + 1)

EmitList(x, st, list, terminate) == EmitFrom(x, Text(st, <<>>), list, terminate, 2)
EmitPart(x, st, part, terminate) == IF part = None THEN Text(st, <<>>) ELSE Emit(x, st, part, terminate)

Braces(code) == <<"{">> \o code \o <<"}">>

EmitIf(x, st, n) ==
  LET init == EmitPart(x, st, n[2], FALSE)
      cond == EmitPart(x, init, n[3], FALSE)
      then == EmitPart(x, cond, n[4], TRUE)
      alt  == EmitPart(x, then, n[5], TRUE)
  IN  Text(alt, <<"if", "(">> \o init.code \o <<";">> \o cond.code \o <<")">> \o Braces(then.code) \o
                (IF alt.code = <<>> THEN <<>> ELSE <<"else">> \o Braces(alt.code)))

\* Mutant: the semicolon stack is not pushed for the header.
EmitLoopTerminates(x, st, n) ==
  LET init == EmitPart(x, st, n[2], TRUE)
      cond == EmitPart(x, init, n[3], TRUE)
      post == EmitPart(x, cond, n[4], TRUE)
      body == EmitList(x, post, n[5], TRUE)
  IN  Text(body, <<"for", "(">> \o init.code \o <<";">> \o cond.code \o <<";">> \o post.code \o <<")">> \o
                 Braces(body.code))

(* What stands behind the body in the header is emitted before it. *)
EmitLoop(x, st, n) ==
  LET init == EmitPart(x, st, n[2], FALSE)
      cond == EmitPart(x, init, n[3], FALSE)
      post == EmitPart(x, cond, n[4], FALSE)
      body == EmitList(x, post, n[5], TRUE)
  IN  Text(body, <<"for", "(">> \o init.code \o <<";">> \o cond.code \o <<";">> \o post.code \o <<")">> \o
                 Braces(body.code))

EmitSwitch(x, st, n) ==
  LET cond == EmitPart(x, st, n[2], FALSE)
      body == EmitList(x, cond, n[3], TRUE)
  IN  Text(body, <<"switch", "(">> \o cond.code \o <<")">> \o Braces(body.code))

Fallthrough == <<"[[fallthrough]]", ";">>

EmitSwitchCase(x, st, n) ==
  LET body   == EmitList(x, st, n[3], TRUE)
      clause == [i \in 1 .. (Len(n[2]) - 1) |->
                   (IF i = 1 THEN <<>> ELSE Fallthrough) \o <<"case">> \o Code(x.structs, n[2][i + 1], FALSE) \o <<":">>]
  IN  Text(body, FlattenSeq(clause) \o Braces(body.code \o (IF n[4] THEN <<>> ELSE <<"break", ";">>)))

EmitSwitchElse(x, st, n) ==
  LET body == EmitList(x, st, n[2], TRUE)
  IN  Text(body, <<"default", ":">> \o Braces(body.code \o <<"break", ";">>))

(* The number is taken when the body, which may hold a defer of its own, is done. *)
EmitDefer(x, st, n) ==
  LET body == EmitList(x, st, n[2], TRUE)
  IN  [body EXCEPT !.code = <<"Defer", "defer_object" \o ToString(body.defers)>> \o Braces(<<"[&]()">> \o Braces(@)) \o <<";">>,
                   !.defers = @ + 1]

ParamCode(x, type, name) == CppType(x.structs, type) \o <<name>>
ParamsCode(x, list) == Paren(Commas([i \in 1 .. (Len(list) - 1) |-> ParamCode(x, Annotation(list[i + 1], 4), list[i + 1][2])]))

(* An attribute that stands in front of a function; the first backend of its language registers it. *)
AttributeCode(attr) ==
  CASE attr.type = "inline" -> <<"inline">>
    [] attr.type = "export" /\ Len(attr.args) # 1 -> <<Raise("internal")>>
    [] OTHER -> <<>>

\* Mutant: the language is registered in place of the name.
RegisteredLanguage(x, attrs, name, type) ==
  LET exports == SelectSeq(attrs, LAMBDA a: a.type = "export" /\ a.args # <<>> /\ a.args[1] \in x.interops)
  IN  [i \in DOMAIN exports |-> [language |-> exports[i].args[1], name |-> exports[i].args[1], type |-> type]]

Registered(x, attrs, name, type) ==
  LET exports == SelectSeq(attrs, LAMBDA a: a.type = "export" /\ a.args # <<>> /\ a.args[1] \in x.interops)
  IN  [i \in DOMAIN exports |-> [language |-> exports[i].args[1], name |-> name, type |-> type]]

EmitFunction(x, st, n) ==
  LET sig  == n[2]
      body == EmitList(x, [st EXCEPT !.exports = @ \o Registered(x, n[4], sig[1], n[3])], sig[4], TRUE)
  IN  Text(body, FlattenSeq([i \in DOMAIN n[4] |-> AttributeCode(n[4][i])]) \o
                 CppType(x.structs, n[3].return) \o <<sig[1]>> \o ParamsCode(x, sig[2]) \o Braces(body.code))

EmitMethod(x, st, n) ==
  LET sig  == n[3]
      body == EmitList(x, st, sig[4], TRUE)
  IN  Text(body, FlattenSeq([i \in DOMAIN n[5] |-> IF n[5][i].type = "inline" THEN <<"inline">> ELSE <<>>]) \o
                 <<"auto", n[2], "::", sig[1]>> \o ParamsCode(x, sig[2]) \o <<"->">> \o
                 CppType(x.structs, n[4].return) \o Braces(body.code))

Variable(x, n, const, terminate) ==
  LET type == CppType(x.structs, Annotation(n, 5)) \o const
  IN  type \o <<n[2]>> \o (IF n[4] = None THEN <<"{", "}">> ELSE <<"=">> \o Code(x.structs, n[4], FALSE)) \o
      Semicolon(terminate)

(* Each attribute of the node emits the body once; the checker gives it one. *)
EmitAttribute(x, st, n) ==
  LET body == EmitList(x, st, n[4], TRUE)
  IN  IF n[2] = "extern" THEN Text(body, <<"extern", "C">> \o Braces(body.code)) ELSE body

(* The first attribute that decides; an override for another backend falls through to the default. *)
StructDeclCode(n, terminate) ==
  LET decides == {i \in DOMAIN n[3] : n[3][i].type = "no_codegen" \/
                                      (n[3][i].type = "override_codegen" /\ n[3][i].args[1] = "cpp")}
      first == n[3][CHOOSE i \in decides : \A j \in decides : i <= j]
  IN  IF decides = {} THEN <<"struct", n[2]>> \o Semicolon(terminate)
      ELSE IF first.type = "no_codegen" THEN <<>> ELSE <<first.args[2]>>

EnumFieldsCode(x, list) ==
  FlattenSeq([i \in 1 .. (Len(list) - 1) |->
    <<list[i + 1][2]>> \o (IF list[i + 1][3] = None THEN <<>> ELSE <<"=">> \o Code(x.structs, list[i + 1][3], FALSE)) \o <<",">>])

(* The methods of the object, the ones that were added behind the definition included. *)
MethodDecls(x, methods) ==
  LET names == SetToSeq(DOMAIN methods)
  IN  FlattenSeq([i \in DOMAIN names |->
        LET type == methods[names[i]]
        IN  <<"auto", names[i]>> \o Paren(Commas([j \in DOMAIN type.params |-> CppType(x.structs, type.params[j])])) \o
            <<"->">> \o CppType(x.structs, type.return) \o <<";">>])

EmitMember(x, st, n) == Text(st, CppType(x.structs, Annotation(n, 4)) \o <<n[2], ";">>)

EmitDeclaration(x, st, n, terminate) ==
  LET variable == CppType(x.structs, Annotation(n, 4)) \o <<n[2], ";">>
  IN  Text(st, CASE n[1] = "LetDecl"      -> <<"extern", "const">> \o variable
                 [] n[1] = "VarDecl"      -> <<"extern">> \o variable
                 [] n[1] = "FunctionDecl" -> CppType(x.structs, n[5].return) \o <<n[2]>> \o ParamsCode(x, n[3]) \o <<";">>
                 [] n[1] = "StructDecl"   -> StructDeclCode(n, terminate))

EmitStruct(x, st, n) ==
  LET members == EmitList(x, st, n[3], TRUE)
  IN  Text(members, <<"struct", n[2]>> \o
                    Braces(members.code \o MethodDecls(x, x.structs[n[4].struct].methods)) \o <<";">>)

EmitEnum(x, st, n) ==
  Text(st, <<"enum", "class", n[2], ":">> \o CppType(x.structs, n[5].under) \o Braces(EnumFieldsCode(x, n[4])) \o <<";">>)

EmitJump(x, st, n) ==
  Text(st, CASE n[1] = "Fallthrough" -> Fallthrough
             [] n[1] = "Return"      -> <<"return">> \o Code(x.structs, n[2], FALSE) \o <<";">>
             [] OTHER                -> <<n[1], ";">>)

Emit(x, st, n, terminate) ==
  CASE n[1] = "List"         -> EmitList(x, st, n, terminate)
    [] n[1] = "If"           -> EmitIf(x, st, n)
    [] n[1] = "Loop"         -> EmitLoop(x, st, n)
    [] n[1] = "Switch"       -> EmitSwitch(x, st, n)
    [] n[1] = "SwitchCase"   -> EmitSwitchCase(x, st, n)
    [] n[1] = "SwitchElse"   -> EmitSwitchElse(x, st, n)
    [] n[1] = "Defer"        -> EmitDefer(x, st, n)
    [] n[1] = "Function"     -> EmitFunction(x, st, n)
    [] n[1] = "Method"       -> EmitMethod(x, st, n)
    [] n[1] = "Let"          -> Text(st, Variable(x, n, <<"const">>, terminate))
    [] n[1] = "Var"          -> Text(st, Variable(x, n, <<>>, terminate))
    [] n[1] = "Attribute"    -> EmitAttribute(x, st, n)
    [] n[1] = "MemberDecl"   -> EmitMember(x, st, n)
    [] n[1] = "Struct"       -> EmitStruct(x, st, n)
    [] n[1] = "Enum"         -> EmitEnum(x, st, n)
    [] n[1] = "ModuleDecl"   -> Text(st, <<>>)
    [] n[1] = "Import"       -> Text(st, <<Raise("internal")>>)
    [] n[1] \in {"LetDecl", "VarDecl", "FunctionDecl", "StructDecl"} -> EmitDeclaration(x, st, n, terminate)
    [] n[1] \in {"Fallthrough", "Return", "continue", "break"} -> EmitJump(x, st, n)
    [] OTHER                 -> Text(st, Code(x.structs, n, terminate))
=============================================================================
