---------------------------- MODULE SymbolTypes ----------------------------
(***************************************************************************)
(* SymbolData, the types of the SemanticChecker, as values. Only a struct  *)
(* is more than its value: the checker shares one object per struct, to    *)
(* which methods are added, and makes copies of it that are not updated. A *)
(* copy is told apart by the methods it was made with. A struct that is    *)
(* declared and then defined has two objects of the same name.             *)
(*                                                                         *)
(* A context c of a check has the symbols that are visible (scope), the    *)
(* struct objects (structs) and the struct of the method, if any (self).   *)
(* An operation that throws has the kind of its exception as its result.   *)
(***************************************************************************)
EXTENDS Sequences, FiniteSets, TypePromoter

Native(type) == [kind |-> "native", native |-> type]
PointerType(to, depth, readonly) == [kind |-> "ptr", to |-> to, depth |-> depth, readonly |-> readonly]
ArrayType(elem, size) == [kind |-> "array", elem |-> elem, size |-> size]
VarType(mutable, type) == [kind |-> "var", mutable |-> mutable, type |-> type]
FnType(params, return) == [kind |-> "fn", params |-> params, return |-> return]
EnumType(name, under, fields) == [kind |-> "enum", enum |-> name, under |-> under, fields |-> fields]
StructType(name) == [kind |-> "struct", struct |-> name, copied |-> FALSE, methods |-> {}]
Monostate == [kind |-> "monostate"]

(* How main() sees an exception: a diagnostic, one of the compiler's own, or one of the library's. *)
Fail(how) == [kind |-> "error", how |-> how]
Failed(d) == d.kind = "error"
On(d, F(_)) == IF Failed(d) THEN d ELSE F(d)

MethodsOf(c, d) == IF d.copied THEN d.methods ELSE DOMAIN c.structs[d.struct].methods

(* Most operations on a type that was never set throw. *)
Known(d, F(_)) == IF Failed(d) THEN d ELSE IF d = Monostate THEN Fail("internal") ELSE F(d)

RECURSIVE ResultType(_, _)
ResultType(c, d) ==
  CASE d.kind = "var"    -> ResultType(c, d.type)
    [] d.kind = "ptr"    -> [d EXCEPT !.to = ResultType(c, @)]
    [] d.kind = "array"  -> [d EXCEPT !.elem = ResultType(c, @)]
    [] d.kind = "struct" -> [d EXCEPT !.copied = TRUE, !.methods = MethodsOf(c, d)]
    [] OTHER             -> d

Resolved(c, d) == Known(d, LAMBDA k: ResultType(c, k))

RECURSIVE NativeType(_)
NativeType(d) ==
  CASE d.kind = "native" -> {d.native}
    [] d.kind = "var"    -> NativeType(d.type)
    [] OTHER             -> {}

IsMutable(d) == d.kind = "var" /\ d.mutable

(* What two types are compared by: everything, and what a struct has now, not which object it is. *)
RECURSIVE Contents(_, _)
Contents(c, d) ==
  CASE d.kind = "var"    -> [d EXCEPT !.type = Contents(c, @)]
    [] d.kind = "ptr"    -> [d EXCEPT !.to = Contents(c, @)]
    [] d.kind = "array"  -> [d EXCEPT !.elem = Contents(c, @)]
    [] d.kind = "struct" -> [kind |-> "struct", struct |-> c.structs[d.struct].name,
                             members |-> DOMAIN c.structs[d.struct].members, methods |-> MethodsOf(c, d)]
    [] d.kind = "fn"     -> [d EXCEPT !.params = [i \in DOMAIN @ |-> Contents(c, @[i])],
                                      !.return = Contents(c, @)]
    [] OTHER             -> d

(* The struct objects that a type holds directly. *)
RECURSIVE Mentions(_)
Mentions(d) ==
  CASE d.kind = "var"    -> Mentions(d.type)
    [] d.kind = "ptr"    -> Mentions(d.to)
    [] d.kind = "array"  -> Mentions(d.elem)
    [] d.kind = "struct" -> {d}
    [] d.kind = "fn"     -> Mentions(d.return) \cup UNION {Mentions(d.params[i]) : i \in DOMAIN d.params}
    [] OTHER             -> {}

Holds(c, s) ==
  LET object == c.structs[s.struct]
  IN  (UNION {Mentions(object.members[m]) : m \in DOMAIN object.members}) \cup
      UNION {Mentions(object.methods[m]) : m \in MethodsOf(c, s)}

RECURSIVE Reach(_, _)
Reach(c, objects) ==
  LET more == objects \cup UNION {Holds(c, s) : s \in objects}
  IN  IF more = objects THEN objects ELSE Reach(c, more)

(* operator== and type_variant() follow every pointer, and a struct may lead back to itself. *)
Endless(c, d) == \E s \in Reach(c, Mentions(d)) : s \in Reach(c, Holds(c, s))

(* The result that two types have to agree on. *)
Agree(c, lhs, rhs, result) ==
  IF Contents(c, lhs) # Contents(c, rhs) THEN Fail("diagnostic")
  ELSE IF Endless(c, lhs) THEN Fail("overflow") ELSE result
=============================================================================
