--------------------------- MODULE MCExpressions ---------------------------
(* Small languages, each of the operators that interact: infix and prefix operators, subscripts, *)
(* casts, members and calls, pointers. *)
EXTENDS Expressions

MCStructs ==
  "S" :> [name |-> "S", members |-> "m" :> VarType(TRUE, Native("int")),
          methods |-> "g" :> FnType(<<>>, Native("i8"))]

MCScope ==
  [a |-> VarType(TRUE, Native("i8")), n |-> VarType(FALSE, Native("int")),
   p |-> VarType(TRUE, PointerType(Native("int"), 1, FALSE)),
   q |-> VarType(TRUE, PointerType(Native("i8"), 2, FALSE)),
   v |-> VarType(TRUE, ArrayType(Native("int"), 2)),
   s |-> VarType(TRUE, StructType("S")), S |-> StructType("S"),
   f |-> FnType(<<Native("i8")>>, Native("int")), m |-> VarType(FALSE, Native("bool"))]

Language(words, phrases, size) == [phrases |-> {<<w>> : w \in words} \cup phrases, length |-> size]
Cast == <<"to", "<", "i8", ">">>

MCLanguages ==
  [infix     |-> Language({"a", "+", "*", "<", "&&", "-"}, {}, 6),
   group     |-> Language({"a", "+", "-", "!", "(", ")"}, {}, 6),
   subscript |-> Language({"a", "v", "1", "[", "]", "+"}, {}, 6),
   cast      |-> Language({"a", "-", "<", "(", ")"}, {Cast}, 9),
   member    |-> Language({"s", ".", "m", "[", "]"}, {<<"g", "(", ")">>}, 7),
   pointer   |-> Language({"p", "q", "v", "f", "*", "&", "a", "[", "]"}, {}, 4),
   call      |-> Language({"f", "a", "(", ")", ",", "["}, {}, 6)]

MCBoundTypes ==
  {<<"TypeName", t>> : t \in {"i8", "int", "i64", "bool", "S"}} \cup
  {<<"Pointer", 1, TRUE, <<"TypeName", "i8">>>>, <<"Pointer", 1, FALSE, <<"TypeName", "int">>>>,
   <<"Array", <<"TypeName", "int">>, "1">>}

MCIdentifiers == DOMAIN MCScope
MCIntegerValue == ("1" :> 1)
=============================================================================
