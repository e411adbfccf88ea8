------------------------- MODULE ParserContextProofs -------------------------
(***************************************************************************)
(* Proofs about ParserContext, for programs of any nesting depth.           *)
(***************************************************************************)
EXTENDS ParserContext, SequenceTheorems, TLAPS

\* Items are only ever parsed at the top level or in attributes, so the
\* constructs below an item are attributes: there is one method at most.
ItemsOutermost ==
  \A i, j \in DOMAIN open : j < i /\ open[i] \in Items => open[j] = "attribute"

ContextInv ==
  /\ TypeOK
  /\ ItemsOutermost
  /\ NoStaleContext
  /\ SelfInMethods

\* What Append does to the constructs that are open.
LEMMA OpenAppend ==
  ASSUME NEW S, NEW s \in Seq(S), NEW k \in S
  PROVE  /\ Append(s, k) \in Seq(S)
         /\ DOMAIN Append(s, k) = 1..Len(s) + 1
         /\ Append(s, k)[Len(s) + 1] = k
         /\ \A i \in 1..Len(s) : Append(s, k)[i] = s[i]
         /\ Range(Append(s, k)) = Range(s) \cup {k}
<1>1. /\ Append(s, k) \in Seq(S)
      /\ Len(Append(s, k)) = Len(s) + 1
      /\ Append(s, k)[Len(s) + 1] = k
      /\ \A i \in 1..Len(s) : Append(s, k)[i] = s[i]
  BY AppendProperties
<1>2. DOMAIN Append(s, k) = 1..Len(s) + 1
  BY <1>1
<1>3. Len(s) \in Nat /\ DOMAIN s = 1..Len(s)
  OBVIOUS
<1> QED
  BY <1>1, <1>2, <1>3 DEF Range

\* What closing the innermost construct does to the others.
LEMMA OpenFront ==
  ASSUME NEW S, NEW s \in Seq(S), s # <<>>
  PROVE  /\ Front(s) \in Seq(S)
         /\ DOMAIN Front(s) = 1..Len(s) - 1
         /\ \A i \in 1..Len(s) - 1 : Front(s)[i] = s[i]
         /\ Last(s) \in S
         /\ Range(s) = Range(Front(s)) \cup {Last(s)}
<1>1. Len(s) \in Nat /\ Len(s) >= 1 /\ DOMAIN s = 1..Len(s)
  BY EmptySeq
<1>2. /\ Front(s) \in Seq(S)
      /\ Len(Front(s)) = Len(s) - 1
      /\ \A i \in 1..Len(s) - 1 : Front(s)[i] = s[i]
  BY <1>1, SubSeqProperties DEF Front
<1>3. DOMAIN Front(s) = 1..Len(s) - 1
  BY <1>2
<1>4. Last(s) = s[Len(s)] /\ Last(s) \in S
  BY <1>1 DEF Last
<1> QED
  BY <1>1, <1>2, <1>3, <1>4 DEF Range

\* The parser starts without constructs and without contexts.
LEMMA ContextInvInit == Init => ContextInv
<1> SUFFICES ASSUME Init PROVE ContextInv
  OBVIOUS
<1>1. open = <<>> /\ open \in Seq(Items \cup Statements) /\ DOMAIN open = {}
  BY EmptySeq DEF Init
<1> QED
  BY <1>1 DEF Init, ContextInv, TypeOK, ItemsOutermost, NoStaleContext,
              SelfInMethods, Inside, Range, Context, Guard

\* Opening a construct sets its context and leaves the other contexts alone.
LEMMA EnterInv ==
  ASSUME ContextInv, NEW k \in Items \cup Statements, Enter(k)
  PROVE  ContextInv'
<1>1. /\ open \in Seq(Items \cup Statements)
      /\ open' = Append(open, k)
      /\ Len(open) \in Nat
      /\ DOMAIN open = 1..Len(open)
  BY DEF ContextInv, TypeOK, Enter
<1>2. /\ open' \in Seq(Items \cup Statements)
      /\ DOMAIN open' = 1..Len(open) + 1
      /\ open'[Len(open) + 1] = k
      /\ \A i \in 1..Len(open) : open'[i] = open[i]
      /\ Range(open') = Range(open) \cup {k}
  BY <1>1, OpenAppend
<1>3. store' \in [Context -> BOOLEAN]
  BY DEF ContextInv, TypeOK, Enter, Guarded, Guard, Context
<1>4. TypeOK'
  BY <1>2, <1>3 DEF ContextInv, TypeOK, Enter
<1>5. k \in Items => \A j \in 1..Len(open) : open[j] = "attribute"
  <2> SUFFICES ASSUME k \in Items, open # <<>>, NEW j \in 1..Len(open)
               PROVE  open[j] = "attribute"
    BY <1>1
  <2>1. Last(open) = "attribute"
    BY DEF Enter, Admits, AtItem, InAny, Items, Statements
  <2>2. Len(open) \in 1..Len(open) /\ open[Len(open)] = "attribute"
    BY <1>1, <2>1 DEF Last
  <2> QED
    BY <1>1, <2>2 DEF ContextInv, ItemsOutermost, Items
<1>6. ItemsOutermost'
  <2> SUFFICES ASSUME NEW i \in 1..Len(open) + 1, NEW j \in 1..Len(open) + 1,
                      j < i, open'[i] \in Items
               PROVE  open'[j] = "attribute"
    BY <1>2 DEF ItemsOutermost
  <2>1. j \in 1..Len(open) /\ open'[j] = open[j]
    BY <1>1, <1>2
  <2>2. CASE i = Len(open) + 1
    BY <1>2, <1>5, <2>1, <2>2
  <2>3. CASE i \in 1..Len(open)
    BY <1>1, <1>2, <2>1, <2>3 DEF ContextInv, ItemsOutermost
  <2> QED
    BY <1>1, <2>2, <2>3
<1>7. NoStaleContext'
  BY <1>2 DEF ContextInv, TypeOK, NoStaleContext, Inside, Enter, Guarded, Guard, Context
<1>8. SelfInMethods'
  BY <1>2 DEF ContextInv, TypeOK, SelfInMethods, Inside, Enter, Guarded, Guard, Context
<1> QED
  BY <1>4, <1>6, <1>7, <1>8 DEF ContextInv

\* Closing a construct clears its context, which no other method needs.
LEMMA LeaveInv ==
  ASSUME ContextInv, Leave
  PROVE  ContextInv'
<1>1. /\ open \in Seq(Items \cup Statements)
      /\ open # <<>>
      /\ open' = Front(open)
      /\ Len(open) \in Nat
      /\ Len(open) >= 1
      /\ DOMAIN open = 1..Len(open)
  BY EmptySeq DEF ContextInv, TypeOK, Leave
<1>2. /\ open' \in Seq(Items \cup Statements)
      /\ DOMAIN open' = 1..Len(open) - 1
      /\ \A i \in 1..Len(open) - 1 : open'[i] = open[i]
      /\ Last(open) \in Items \cup Statements
      /\ Range(open) = Range(open') \cup {Last(open)}
  BY <1>1, OpenFront
<1>3. TypeOK'
  BY <1>2 DEF ContextInv, TypeOK, Leave, Guarded, Guard, Context
<1>4. ItemsOutermost'
  BY <1>1, <1>2 DEF ContextInv, ItemsOutermost
<1>5. NoStaleContext'
  BY <1>2 DEF ContextInv, TypeOK, NoStaleContext, Inside, Leave, Guarded, Guard, Context
<1>6. Last(open) = "method" => "method" \notin Range(open')
  <2> SUFFICES ASSUME Last(open) = "method", NEW j \in 1..Len(open) - 1
               PROVE  open'[j] # "method"
    BY <1>2 DEF Range
  <2>1. Len(open) \in 1..Len(open) /\ open[Len(open)] = "method" /\ j < Len(open)
    BY <1>1 DEF Last
  <2>2. open[j] = "attribute"
    BY <1>1, <2>1 DEF ContextInv, ItemsOutermost, Items
  <2> QED
    BY <1>2, <2>2
<1>7. SelfInMethods'
  BY <1>2, <1>6 DEF ContextInv, TypeOK, SelfInMethods, Inside, Leave, Guarded, Guard, Context
<1> QED
  BY <1>3, <1>4, <1>5, <1>7 DEF ContextInv

\* An exception destroys every guard, and with them every context.
LEMMA RejectInv ==
  ASSUME ContextInv, Reject
  PROVE  ContextInv'
<1>1. open' = <<>> /\ open' \in Seq(Items \cup Statements) /\ DOMAIN open' = {}
  BY EmptySeq DEF Reject
<1>2. Range(open') = {}
  BY <1>1 DEF Range
<1>3. \A k \in DOMAIN Guard : ~store'[Guard[k]]
  <2> SUFFICES ASSUME NEW k \in DOMAIN Guard, store'[Guard[k]] PROVE FALSE
    OBVIOUS
  <2>1. Guard[k] \in Context
    BY DEF Guard, Context
  <2>2. store[Guard[k]]
    BY <2>1 DEF Reject
  <2>3. PICK i \in DOMAIN open : open[i] = k
    BY <2>2 DEF ContextInv, NoStaleContext, Inside, Range
  <2> QED
    BY <2>1, <2>3 DEF Reject, Guarded
<1>4. TypeOK'
  BY <1>1 DEF ContextInv, TypeOK, Reject
<1>5. ItemsOutermost'
  BY <1>1 DEF ItemsOutermost
<1>6. NoStaleContext' /\ SelfInMethods'
  BY <1>2, <1>3 DEF NoStaleContext, SelfInMethods, Inside
<1> QED
  BY <1>4, <1>5, <1>6 DEF ContextInv

\* The invariant is inductive: one case for each thing the parser can meet.
LEMMA ContextInvStep == ContextInv /\ [Next]_vars => ContextInv'
<1> SUFFICES ASSUME ContextInv, [Next]_vars PROVE ContextInv'
  OBVIOUS
<1>1. CASE UNCHANGED vars
  BY <1>1 DEF vars, ContextInv, TypeOK, ItemsOutermost, NoStaleContext,
              SelfInMethods, Inside
<1>2. CASE \E k \in Items \cup Statements : Enter(k)
  BY <1>2, EnterInv
<1>3. CASE Leave
  BY <1>3, LeaveInv
<1>4. CASE Reject
  BY <1>4, RejectInv
<1>5. CASE Jump \/ Self
  BY <1>1, <1>4, <1>5 DEF Jump, Self, Check
<1>6. CASE Iota \/ Malformed
  BY <1>4, <1>6 DEF Iota, Malformed
<1>7. CASE Done
  BY <1>7 DEF Done, ContextInv, TypeOK, ItemsOutermost, NoStaleContext,
              SelfInMethods, Inside
<1> QED
  BY <1>1, <1>2, <1>3, <1>5, <1>6, <1>7 DEF Next

\* The strengthening: types, the nesting of items, and the two properties.
THEOREM ContextInvHolds == Spec => []ContextInv
<1> QED
  BY ContextInvInit, ContextInvStep, PTL DEF Spec

\* The parser's state is well formed, whatever the program and its nesting.
THEOREM ParserTypeCorrect == Spec => []TypeOK
<1>1. ContextInv => TypeOK
  BY DEF ContextInv
<1> QED
  BY <1>1, ContextInvHolds, PTL

\* No context outlives the construct it was set for, however deep the program
\* nests and wherever a syntax error unwinds it.
THEOREM NoStaleContextHolds == Spec => []NoStaleContext
<1>1. ContextInv => NoStaleContext
  BY DEF ContextInv
<1> QED
  BY <1>1, ContextInvHolds, PTL

\* `self` is admitted in all of a method: what fails for nested loops cannot
\* happen to methods, because they do not nest.
THEOREM SelfInMethodsHolds == Spec => []SelfInMethods
<1>1. ContextInv => SelfInMethods
  BY DEF ContextInv
<1> QED
  BY <1>1, ContextInvHolds, PTL
=============================================================================
