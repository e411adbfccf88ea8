---------------------------- MODULE DriverProofs ----------------------------
(***************************************************************************)
(* Proofs about Driver, for any number of units.  Pipeline implements      *)
(* Driver, so what is proved here holds of the runs of the compiler.       *)
(***************************************************************************)
EXTENDS Driver, TLAPS

\* TypeOK and OkMeansAll do not know that a unit is left while a step of it is
\* taken, nor that nothing is compiled before the backend is configured.
DriverInv ==
  /\ TypeOK
  /\ UnitsLeft
  /\ step = "configure" => done = 0
  /\ OkMeansAll

\* No unit is done when the run begins.
LEMMA DriverInvInit == Init => DriverInv
  BY DEF Init, DriverInv, TypeOK, UnitsLeft, OkMeansAll, Steps, Causes

\* A unit is begun only if there is one, and OK is said only if there is none.
LEMMA NextUnitKeeps ==
  ASSUME DriverInv, outcome = "running", NEW finished \in Nat, finished <= units,
         NextUnit(finished),
         finished = units => step # "configure" \/ finished = 0
  PROVE  DriverInv'
<1>1. CASE finished < units
  <2>1. done' = finished /\ units' = units /\ step' = "read" /\ outcome' = "running"
    BY <1>1 DEF NextUnit
  <2> QED
    BY <1>1, <2>1 DEF DriverInv, TypeOK, UnitsLeft, OkMeansAll, Steps, Causes
<1>2. CASE finished = units
  <2>1. done' = finished /\ units' = units /\ step' = step /\ outcome' = "ok"
    BY <1>2 DEF NextUnit, DriverInv, TypeOK
  <2> QED
    BY <1>2, <2>1 DEF DriverInv, TypeOK, UnitsLeft, OkMeansAll, Steps, Causes
<1> QED
  BY <1>1, <1>2 DEF DriverInv, TypeOK

\* Every step of the run keeps the invariant.
LEMMA DriverInvStep == DriverInv /\ [Next]_driverVars => DriverInv'
<1> SUFFICES ASSUME DriverInv, [Next]_driverVars
             PROVE  DriverInv'
  OBVIOUS
<1>1. CASE Configured
  BY <1>1, NextUnitKeeps DEF Configured, DriverInv, TypeOK
<1>2. CASE Advance
  <2>1. Successor[step] \in Steps \ {"configure"}
    BY <1>2 DEF Advance, Successor, Steps
  <2>2. step # "configure"
    BY <1>2 DEF Advance, Successor
  <2> QED
    BY <1>2, <2>1, <2>2 DEF Advance, DriverInv, TypeOK, UnitsLeft, OkMeansAll, Causes
<1>3. CASE Compiled
  BY <1>3, NextUnitKeeps DEF Compiled, DriverInv, TypeOK, UnitsLeft
<1>4. CASE \E cause \in Causes : Fail(cause)
  BY <1>4 DEF Fail, DriverInv, TypeOK, UnitsLeft, OkMeansAll, Causes
<1>5. CASE UNCHANGED driverVars
  BY <1>5 DEF driverVars, DriverInv, TypeOK, UnitsLeft, OkMeansAll
<1> QED
  BY <1>1, <1>2, <1>3, <1>4, <1>5 DEF Next

\* In every run a step of a unit is taken only while a unit is left, and the
\* backend is configured before anything is compiled.
THEOREM DriverInvHolds == Spec => []DriverInv
  BY DriverInvInit, DriverInvStep, PTL DEF Spec

\* main() answers OK only if all units were compiled, and reports an exception
\* only if one was not.
THEOREM OkMeansAllHolds == Spec => []OkMeansAll
<1>1. DriverInv => OkMeansAll
  BY DEF DriverInv
<1> QED
  BY <1>1, DriverInvHolds, PTL

\* What a single step of the run does to the units that were compiled.
LEMMA StepIsFinal ==
  ASSUME DriverInv, Next
  PROVE  /\ outcome = "running"
         /\ outcome' \in Causes => outcome' \in CausesOf[step] /\ done' = done
         /\ done' \in {done, done + 1}
<1>1. CASE Configured
  BY <1>1 DEF Configured, NextUnit, DriverInv, Causes
<1>2. CASE Advance
  BY <1>2 DEF Advance, Causes
<1>3. CASE Compiled
  BY <1>3 DEF Compiled, NextUnit, Causes
<1>4. CASE \E cause \in Causes : Fail(cause)
  BY <1>4 DEF Fail
<1> QED
  BY <1>1, <1>2, <1>3, <1>4 DEF Next

\* An exception ends the run with one of the causes of the step that threw it;
\* nothing happens behind it, and no unit that was compiled is undone.
THEOREM FailuresAreFinalHolds == Spec => FailuresAreFinal
<1>1. DriverInv /\ [Next]_driverVars =>
        [/\ outcome = "running"
         /\ outcome' \in Causes => outcome' \in CausesOf[step] /\ done' = done
         /\ done' \in {done, done + 1}]_driverVars
  BY StepIsFinal
<1> QED
  BY <1>1, DriverInvHolds, PTL DEF Spec, FailuresAreFinal
=============================================================================
