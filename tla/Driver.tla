------------------------------- MODULE Driver -------------------------------
(***************************************************************************)
(* What main() promises of one run of the compiler, whatever the sources:  *)
(* the translation units are compiled one after the other, each through    *)
(* all of its steps in their order; the first exception ends the run, and  *)
(* what has been compiled before it stays; the exit code is OK only if     *)
(* every unit went through. A step can fail in some ways only.             *)
(***************************************************************************)
EXTENDS Naturals

VARIABLES units,   \* the number of source paths
          done, step, outcome

driverVars == <<units, done, step, outcome>>

Steps == {"configure", "read", "preprocess", "lex", "parse", "semantic", "codegen", "compile"}

(* The exceptions that main() tells apart: a DiagnosticError, one of lib::stdexcept, one of the standard *)
(* library. A conversion without an end is a crash that nothing catches. *)
Causes == {"diagnostic", "internal", "standard", "crash"}

CausesOf ==
  [configure  |-> {"diagnostic", "internal", "standard"},
   read       |-> {"standard"},
   preprocess |-> {"diagnostic", "standard"},
   lex        |-> {"diagnostic", "standard"},
   parse      |-> {"diagnostic", "internal"},
   semantic   |-> Causes,
   codegen    |-> {"diagnostic", "internal", "standard"},
   compile    |-> {"internal"}]

Successor ==
  [read |-> "preprocess", preprocess |-> "lex", lex |-> "parse", parse |-> "semantic",
   semantic |-> "codegen", codegen |-> "compile"]

Init ==
  /\ units \in Nat
  /\ done = 0
  /\ step = "configure"
  /\ outcome = "running"

(* The next unit, or the end. *)
NextUnit(finished) ==
  /\ done' = finished /\ UNCHANGED units
  /\ IF finished < units THEN step' = "read" /\ UNCHANGED outcome
                         ELSE outcome' = "ok" /\ UNCHANGED step

(* The backend is selected and its interop backends registered, one after the other. *)
Configured == outcome = "running" /\ step = "configure" /\ NextUnit(0)

Advance ==
  /\ outcome = "running" /\ step \in DOMAIN Successor
  /\ step' = Successor[step]
  /\ UNCHANGED <<units, done, outcome>>

(* The result of the C++ compiler is printed, and not looked at otherwise. *)
Compiled == outcome = "running" /\ step = "compile" /\ NextUnit(done + 1)

Fail(cause) ==
  /\ outcome = "running" /\ cause \in CausesOf[step]
  /\ outcome' = cause
  /\ UNCHANGED <<units, done, step>>

Next == Configured \/ Advance \/ Compiled \/ \E cause \in Causes : Fail(cause)

Spec == Init /\ [][Next]_driverVars /\ WF_driverVars(Next)

-----------------------------------------------------------------------------

(* The run is at a step of a unit that exists, or was not begun, or is over. *)
TypeOK ==
  /\ units \in Nat
  /\ done \in 0 .. units
  /\ step \in Steps
  /\ outcome \in {"running", "ok"} \cup Causes

(* OK is the answer only if all units were compiled, and any other answer if one was not. *)
OkMeansAll == (outcome = "ok" => done = units) /\ (outcome \in Causes => done < units \/ units = 0)

(* A step of a unit is taken only while there is a unit left. *)
UnitsLeft == outcome # "ok" /\ step # "configure" => done < units

(* An exception is what main() sees of the step that threw it, and the end: nothing happens behind it, *)
(* and no unit that was compiled is undone. *)
FailuresAreFinal ==
  [][/\ outcome = "running"
     /\ outcome' \in Causes => outcome' \in CausesOf[step] /\ done' = done
     /\ done' \in {done, done + 1}]_driverVars
=============================================================================
