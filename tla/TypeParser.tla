----------------------------- MODULE TypeParser -----------------------------
(***************************************************************************)
(* TypeParser: a pointer, an array of a literal length, or a name. There   *)
(* is no keyword bool: like the name of a struct it is an identifier, and  *)
(* whether a name is a type is for the SemanticChecker to decide.          *)
(***************************************************************************)
EXTENDS TokenStream

Builtins == {"void", "f32", "f64", "int", "i8", "i16", "i32", "i64", "isz",
             "uint", "u8", "u16", "u32", "u64", "usz", "char", "cstr"}

RECURSIVE TypeExpr(_)

RECURSIVE Asterisks(_)
Asterisks(s) == IfNext(s, {"*"}, Asterisks, LAMBDA q: q)

(* The depth of a pointer is the number of its asterisks; readonly belongs to the last one. *)
PointerTo(s, depth, readonly) ==
  Then(Required(TypeExpr(s)), LAMBDA target: Make(target, <<"Pointer", depth, readonly, target.node>>))

TypePointer(s) ==
  OnlyAfter(s, {"*"}, LAMBDA first:
    LET rest == Asterisks(first) IN
    IfNext(rest, {"readonly"},
           LAMBDA q: PointerTo(q, rest.at - s.at, TRUE),
           LAMBDA q: PointerTo(q, rest.at - s.at, FALSE)))

TypeArray(s) ==
  OnlyAfter(s, {"["}, LAMBDA open:
    Then(Required(TypeExpr(open)), LAMBDA target:
      Then(Expect(target, {";"}), LAMBDA size:
        Then(Expect(Expect(size, Integer), {"]"}), LAMBDA q:
          Make(q, <<"Array", target.node, Token(size)>>)))))

TypeId(s) ==
  OnlyAfter(s, Builtins \cup Identifiers, LAMBDA q: Make(q, <<"TypeName", Token(s)>>))

TypeExpr(s) ==
  OrElse(TypePointer(s), LAMBDA p: OrElse(TypeArray(p), TypeId))
=============================================================================
