---------------------------- MODULE TypePromoter ----------------------------
(***************************************************************************)
(* TypePromoter: which of two native types an operation is carried out in. *)
(* An optional type is a set of one type or none. The ladder of the        *)
(* floating point types is filled by the code and asked by nobody.         *)
(***************************************************************************)
EXTENDS Integers

IntLadder ==
  [int |-> 0, uint |-> 1, i8 |-> 2, u8 |-> 3, i16 |-> 4, u16 |-> 5, i32 |-> 6, u32 |-> 7,
   i64 |-> 8, u64 |-> 9, isz |-> 10, usz |-> 11]

Integers12 == DOMAIN IntLadder

PromoteInt(lhs, rhs, mode) ==
  CASE mode = "PROMOTE_TO_LHS" -> IF IntLadder[lhs] >= IntLadder[rhs] THEN {lhs} ELSE {}
    [] mode = "ENFORCE_RHS"    -> {rhs}
    [] mode = "PEAK"           -> {IF IntLadder[lhs] > IntLadder[rhs] THEN lhs ELSE rhs}

Promote(lhs, rhs, mode) ==
  IF lhs \in Integers12 /\ rhs \in Integers12 THEN PromoteInt(lhs, rhs, mode) ELSE {}
=============================================================================
