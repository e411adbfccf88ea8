------------------------- MODULE PreprocessorProofs -------------------------
(***************************************************************************)
(* Proofs about Preprocessor, for every file system and every limit of      *)
(* nesting: also with files that include one another in circles, the        *)
(* recursion is never empty and never deeper than the limit, text survives, *)
(* and what is included once is there once.                                *)
(***************************************************************************)
EXTENDS Preprocessor, SequenceTheorems, FiniteSetTheorems, StepwiseRecursion, TLAPS

\* TypeOK does not know that the files being expanded exist, and that they are
\* read from their first line on, without which nothing is known of the line
\* under a cursor.
PreprocessorInv ==
  /\ TypeOK
  /\ source \in Sources
  /\ \A k \in 1..Len(open) : open[k].file \in DOMAIN source /\ open[k].line >= 1

\* The innermost file is a frame, and its cursor, while it is on a line, is on
\* a line of the file.
LEMMA TopIsFrame ==
  ASSUME PreprocessorInv
  PROVE  /\ Len(open) \in Nat \ {0}
         /\ Top \in Frame
         /\ Top.file \in DOMAIN source
         /\ Top.line \in Nat \ {0}
         /\ Top.ifs \in Seq(BOOLEAN)
<1>1. Len(open) \in 1..Len(open) /\ open \in Seq(Frame)
  BY PreprocessorAssumption DEF PreprocessorInv, TypeOK
<1>2. Top \in Frame
  BY <1>1, ElementOfSeq DEF Top
<1> QED
  BY <1>1, <1>2 DEF Frame, Top, PreprocessorInv

\* Going on inside of the innermost file keeps the invariant.
LEMMA AdvanceKeeps ==
  ASSUME PreprocessorInv, NEW n \in Nat, NEW i \in Seq(BOOLEAN), Advance(n, i),
         macros' = macros, source' = source, included' = included,
         dst' \in Seq(File \X Nat), status' = status
  PROVE  PreprocessorInv'
<1> DEFINE top == [Top EXCEPT !.line = @ + n, !.ifs = i]
<1>1. /\ Len(open) \in Nat \ {0}
      /\ Top.file \in DOMAIN source
      /\ Top \in Frame
  BY TopIsFrame
<1>2. top \in Frame /\ top.file = Top.file /\ top.line >= 1
  <2>1. \A f \in Frame, l \in Nat, s \in Seq(BOOLEAN) :
          LET g == [f EXCEPT !.line = l, !.ifs = s]
          IN  g \in Frame /\ g.file = f.file /\ g.line = l
    BY DEF Frame
  <2>2. Top.line + n \in Nat /\ Top.line + n >= 1
    <3>1. Top.line \in Nat \ {0}
      BY TopIsFrame
    <3> QED
      BY <3>1
  <2>3. top = [Top EXCEPT !.line = Top.line + n, !.ifs = i]
    OBVIOUS
  <2> QED
    BY <1>1, <2>1, <2>2, <2>3
<1>3. open' = [open EXCEPT ![Len(open)] = top]
  BY DEF Advance, Top
<1>4. open \in Seq(Frame)
  BY DEF PreprocessorInv, TypeOK
<1>5. /\ open' \in Seq(Frame)
      /\ Len(open') = Len(open)
      /\ \A k \in 1..Len(open) : open'[k] = IF k = Len(open) THEN top ELSE open[k]
  <2> HIDE DEF top
  <2> QED
    BY <1>1, <1>2, <1>3, <1>4, ExceptSeq
<1> QED
  BY <1>1, <1>2, <1>5 DEF PreprocessorInv, TypeOK

\* A file is opened only if it exists and the limit is not reached.
LEMMA OpenKeeps ==
  ASSUME PreprocessorInv, NEW f, NEW once \in BOOLEAN, Open(f, once)
  PROVE  PreprocessorInv'
<1>1. CASE f \notin DOMAIN source \/ Len(open) >= MaxNesting
  BY <1>1 DEF Open, Fail, PreprocessorInv, TypeOK
<1>2. CASE f \in DOMAIN source /\ ~(Len(open) >= MaxNesting)
  <2>1. Enter(f, once) \in Frame /\ Enter(f, once).file = f /\ Enter(f, once).line = 1
    <3>1. f \in File
      BY <1>2, PreprocessorAssumption DEF PreprocessorInv
    <3> QED
      BY <3>1 DEF Enter, Frame
  <2>2. open' = Append(open, Enter(f, once)) /\ UNCHANGED <<source, macros, included, dst, status>>
    BY <1>2 DEF Open
  <2>3. open \in Seq(Frame) /\ Len(open) \in 1..MaxNesting
    BY DEF PreprocessorInv, TypeOK
  <2>4. /\ open' \in Seq(Frame)
        /\ Len(open') = Len(open) + 1
        /\ open'[Len(open) + 1] = Enter(f, once)
        /\ \A k \in 1..Len(open) : open'[k] = open[k]
    BY <2>1, <2>2, <2>3, AppendProperties
  <2>5. Len(open') \in 1..MaxNesting
    BY <1>2, <2>3, <2>4, PreprocessorAssumption
  <2>6. \A k \in 1..Len(open') : open'[k].file \in DOMAIN source /\ open'[k].line >= 1
    BY <1>2, <2>1, <2>3, <2>4 DEF PreprocessorInv
  <2> QED
    BY <2>2, <2>4, <2>5, <2>6 DEF PreprocessorInv, TypeOK
<1> QED
  BY <1>1, <1>2

\* Nothing but the status changes when the expansion is given up or done.
LEMMA FailKeeps ==
  ASSUME PreprocessorInv, NEW s, Fail(s),
         s \in {"done", "preprocessor_error", "invalid_argument"}
  PROVE  PreprocessorInv'
  BY DEF Fail, PreprocessorInv, TypeOK

\* A line that is stepped over.
LEMMA SkipKeeps ==
  ASSUME PreprocessorInv, Skip
  PROVE  PreprocessorInv'
<1>1. Top.ifs \in Seq(BOOLEAN)
  BY TopIsFrame
<1>2. dst' \in Seq(File \X Nat)
  BY DEF Skip, PreprocessorInv, TypeOK
<1> QED
  BY <1>1, <1>2, AdvanceKeeps DEF Skip

\* Entering, turning and leaving a conditional.
LEMMA IfsKeep ==
  ASSUME PreprocessorInv, NEW n \in Nat, NEW i \in Seq(BOOLEAN), Advance(n, i),
         UNCHANGED <<source, macros, included, dst, status>>
  PROVE  PreprocessorInv'
<1>1. dst' \in Seq(File \X Nat)
  BY DEF PreprocessorInv, TypeOK
<1> QED
  BY <1>1, AdvanceKeeps

\* The conditionals around the innermost one.
LEMMA OuterIfs ==
  ASSUME PreprocessorInv, InIf
  PROVE  Front(Top.ifs) \in Seq(BOOLEAN)
<1>1. Top.ifs \in Seq(BOOLEAN) /\ Top.ifs # <<>>
  BY TopIsFrame DEF InIf
<1> QED
  BY <1>1 DEF Front

\* The end of a file: the file below it goes on.
LEMMA EofKeeps ==
  ASSUME PreprocessorInv, Eof
  PROVE  PreprocessorInv'
<1>1. CASE InIf \/ Len(open) = 1
  BY <1>1, FailKeeps DEF Eof
<1>2. CASE ~InIf /\ Len(open) # 1
  <2> DEFINE below == Len(open) - 1
  <2>1. open \in Seq(Frame) /\ Len(open) \in 1..MaxNesting
    BY DEF PreprocessorInv, TypeOK
  <2>2. below \in 1..Len(open) /\ below < Len(open) /\ below \in Nat
    <3>1. \A l \in Nat : l \in 1..MaxNesting /\ l # 1
                           => l - 1 \in 1..l /\ l - 1 < l /\ l - 1 \in Nat
      OBVIOUS
    <3>2. Len(open) \in Nat
      BY <2>1
    <3> QED
      BY <1>2, <2>1, <3>1, <3>2
  <2>3. /\ Front(open) \in Seq(Frame)
        /\ Len(Front(open)) = below
        /\ \A k \in 1..below : Front(open)[k] = open[k]
    BY <2>1, <2>2 DEF Front
  <2> DEFINE top == [open[below] EXCEPT !.line = @ + 1]
  <2>4. open[below] \in Frame
    BY <2>1, <2>2, ElementOfSeq
  <2>5. top \in Frame /\ top.file = open[below].file /\ top.line >= 1
    BY <2>4 DEF Frame
  <2>6. open' = [Front(open) EXCEPT ![below] = top]
    BY <1>2, <2>2, <2>3 DEF Eof
  <2>7. /\ open' \in Seq(Frame)
        /\ Len(open') = below
        /\ \A k \in 1..below : open'[k] = IF k = below THEN top ELSE open[k]
    <3> HIDE DEF top
    <3> QED
      BY <2>2, <2>3, <2>5, <2>6, ExceptSeq
  <2>8. included' \subseteq File
    <3>1. Top.file \in File
      BY TopIsFrame DEF Frame
    <3> QED
      BY <1>2, <3>1 DEF Eof, PreprocessorInv, TypeOK
  <2>9. \A k \in 1..Len(open') : open'[k].file \in DOMAIN source /\ open'[k].line >= 1
    <3> HIDE DEF top
    <3> QED
      BY <2>2, <2>5, <2>7 DEF PreprocessorInv
  <2>10. UNCHANGED <<source, macros, dst, status>>
    BY <1>2 DEF Eof
  <2>11. Len(open') \in 1..MaxNesting
    BY <1>2, <2>1, <2>7, PreprocessorAssumption
  <2> HIDE DEF top, below
  <2> QED
    BY <2>7, <2>8, <2>9, <2>10, <2>11 DEF PreprocessorInv, TypeOK
<1> QED
  BY <1>1, <1>2

\* The main file is open when the expansion begins.
LEMMA PreprocessorInvInit == Init => PreprocessorInv
<1> SUFFICES ASSUME Init
             PROVE  PreprocessorInv
  OBVIOUS
<1>1. Main \in File /\ Main \in DOMAIN source /\ source \in Sources
  BY PreprocessorAssumption DEF Init
<1>2. /\ Enter(Main, FALSE) \in Frame
      /\ Enter(Main, FALSE).file = Main /\ Enter(Main, FALSE).line = 1
  BY <1>1 DEF Enter, Frame
<1>3. open = <<Enter(Main, FALSE)>>
  BY DEF Init
<1>4. open \in Seq(Frame) /\ Len(open) = 1 /\ open[1] = Enter(Main, FALSE)
  <2>1. \A e \in Frame : <<e>> \in Seq(Frame) /\ Len(<<e>>) = 1 /\ <<e>>[1] = e
    OBVIOUS
  <2> QED
    BY <1>2, <1>3, <2>1
<1>5. Len(open) \in 1..MaxNesting /\ dst \in Seq(File \X Nat)
  BY <1>4, PreprocessorAssumption DEF Init
<1>6. \A k \in 1..Len(open) : open[k].file \in DOMAIN source /\ open[k].line >= 1
  <2>1. \A k \in 1..1 : k = 1
    OBVIOUS
  <2>2. open[1].file = Main /\ open[1].line >= 1
    <3>1. open[1].file = Main /\ open[1].line = 1
      BY <1>2, <1>4, Zenon
    <3> QED
      BY <3>1
  <2>3. 1..Len(open) = 1..1
    BY <1>4
  <2> HIDE <1>4
  <2> QED
    BY <1>1, <2>1, <2>2, <2>3, Zenon
<1> QED
  BY <1>1, <1>4, <1>5, <1>6 DEF Init, PreprocessorInv, TypeOK

\* Every directive keeps the invariant.
LEMMA PreprocessorInvStep == PreprocessorInv /\ [Next]_vars => PreprocessorInv'
<1> SUFFICES ASSUME PreprocessorInv, [Next]_vars
             PROVE  PreprocessorInv'
  OBVIOUS
<1>1. CASE Text
  <2>1. Top.file \in File /\ Top.line \in Nat /\ Top.ifs \in Seq(BOOLEAN)
    BY TopIsFrame DEF Frame
  <2>2. dst' \in Seq(File \X Nat)
    BY <1>1, <2>1 DEF Text, PreprocessorInv, TypeOK
  <2> QED
    BY <1>1, <2>1, <2>2, AdvanceKeeps DEF Text
<1>2. CASE Ifdef
  <2>1. Append(Top.ifs, Current.macro \in macros) \in Seq(BOOLEAN)
    <3>1. (Current.macro \in macros) \in BOOLEAN /\ Top.ifs \in Seq(BOOLEAN)
      BY TopIsFrame
    <3> QED
      BY <3>1, AppendProperties
  <2> QED
    BY <1>2, <2>1, IfsKeep, SkipKeeps DEF Ifdef
<1>3. CASE Else
  <2>1. CASE InIf
    <3>1. Append(Front(Top.ifs), ~Top.ifs[Len(Top.ifs)]) \in Seq(BOOLEAN)
      <4>1. (~Top.ifs[Len(Top.ifs)]) \in BOOLEAN
        OBVIOUS
      <4> QED
        BY <2>1, <4>1, OuterIfs, AppendProperties
    <3> QED
      BY <1>3, <2>1, <3>1, IfsKeep DEF Else
  <2> QED
    BY <1>3, <2>1, FailKeeps DEF Else
<1>4. CASE Endif
  BY <1>4, OuterIfs, IfsKeep, FailKeeps DEF Endif
<1>5. CASE Include
  BY <1>5, OpenKeeps, SkipKeeps DEF Include
<1>6. CASE IncludeOnce
  BY <1>6, OpenKeeps, SkipKeeps DEF IncludeOnce
<1>7. CASE Error
  BY <1>7, FailKeeps, SkipKeeps DEF Error
<1>8. CASE Malformed
  BY <1>8, FailKeeps DEF Malformed
<1>9. CASE Eof
  BY <1>9, EofKeeps
<1>10. CASE UNCHANGED vars
  BY <1>10 DEF vars, PreprocessorInv, TypeOK
<1> QED
  BY <1>1, <1>2, <1>3, <1>4, <1>5, <1>6, <1>7, <1>8, <1>9, <1>10 DEF Next

\* The expansion only ever opens files that exist, whatever the directives
\* of handle_preprocessor and handle_ifdef name.
THEOREM PreprocessorInvHolds == Spec => []PreprocessorInv
  BY PreprocessorInvInit, PreprocessorInvStep, PTL DEF Spec

\* The state of the expansion keeps its types, and between one and MaxNesting
\* files are open at any time, also when files include one another in circles.
THEOREM ExpansionIsBounded == Spec => []TypeOK
<1>1. PreprocessorInv => TypeOK
  BY DEF PreprocessorInv
<1> QED
  BY <1>1, PreprocessorInvHolds, PTL

-----------------------------------------------------------------------------
(* The invariants behind the other properties. *)

Lines(f) == source[f]

\* A directive that is expanded, as all open files but the innermost stand on.
Expanding(o) == o.ifs # <<>> => o.ifs[Len(o.ifs)]
OnDirective(o) ==
  /\ o.line \in DOMAIN Lines(o.file)
  /\ Lines(o.file)[o.line].kind \in {"include", "include_once"}
  /\ Expanding(o)

\* What the cursor does in a file, whatever the files that are
\* included do: line by line the conditionals it is inside of, and whether
\* handle_ifdef steps over the line.
Go(w, l, defined) ==
  IF w.over THEN [ifs |-> w.ifs, over |-> FALSE]
  ELSE CASE l.kind = "ifdef" /\ Expanding(w) ->
              [ifs |-> Append(w.ifs, l.macro \in defined), over |-> FALSE]
         [] l.kind = "else" /\ w.ifs # <<>> ->
              [ifs |-> Append(Front(w.ifs), ~w.ifs[Len(w.ifs)]), over |-> FALSE]
         [] l.kind = "endif" /\ w.ifs # <<>> ->
              [ifs |-> Front(w.ifs), over |-> TRUE]
         [] OTHER -> w
WalkOf(ls, defined) ==
  LET w[i \in 0..Len(ls)] ==
        IF i = 0 THEN [ifs |-> <<>>, over |-> FALSE] ELSE Go(w[i - 1], ls[i], defined)
  IN  w
Walk(f) == WalkOf(source[f], macros)

\* A file that is open is where that takes it, so that two cursors in the same
\* file at the same line do the same.
AsWalked(o) ==
  o.line <= Len(Lines(o.file)) =>
    Walk(o.file)[o.line - 1] = [ifs |-> o.ifs, over |-> FALSE]

\* A file was opened by the line under the cursor of the one below it.
OpenedBy(o, n) ==
  /\ OnDirective(o)
  /\ Lines(o.file)[o.line] =
       [kind |-> IF n.once THEN "include_once" ELSE "include", file |-> n.file]

\* A file that is open twice never ends: the inner cursor does not get past
\* the line that leads to it from the outer one.  Hence no file is registered
\* while include_once has it open.
Walking == \A k \in 1..Len(open) : AsWalked(open[k])
Chained == \A k \in 1..Len(open) : k < Len(open) => OpenedBy(open[k], open[k + 1])
Ordered == \A j, k \in 1..Len(open) :
             j < k /\ open[j].file = open[k].file => open[k].line <= open[j].line
Unregistered == \A k \in 1..Len(open) : k = 1 \/ open[k].once => open[k].file \notin included
StackInv ==
  /\ open[1].file = Main
  /\ Walking
  /\ Chained
  /\ Ordered
  /\ Unregistered

\* TextSurvives: what lies above the cursor of the main file is in the output.
Below(i) == i > 1 => Lines(Main)[i - 1].kind # "endif"
SurvivesInv ==
  /\ status = "done" => Len(open) = 1 /\ AtEof
  /\ \A i \in DOMAIN Lines(Main) :
       i < open[1].line /\ Lines(Main)[i].kind = "text" /\ Below(i)
         => \E k \in DOMAIN dst : dst[k] = <<Main, i>>

\* RegularIncludes: every open file stands inside the conditionals around its
\* line.
AsNested(o) ==
  o.line <= Len(Lines(o.file)) => o.ifs = Branches(o.file)[o.line - 1]
RegularInv == Regular => \A k \in 1..Len(open) : AsNested(open[k])

\* AtMostOnce: a file that is open no more than once has left each line at most once,
\* and those below its cursor not at all.
Lone(f) == \A j, k \in 1..Len(open) : open[j].file = f /\ open[k].file = f => j = k
Closed(f) == \A k \in 1..Len(open) : open[k].file # f
Single(f) == \A j, k \in DOMAIN dst : dst[j] = dst[k] /\ dst[j][1] = f => j = k
Claims(f) ==
  /\ Lone(f) => Single(f)
  /\ (Closed(f) /\ f \notin included) => \A k \in DOMAIN dst : dst[k][1] # f
  /\ Lone(f) => \A j \in 1..Len(open), k \in DOMAIN dst :
                  open[j].file = f /\ dst[k][1] = f => dst[k][2] < open[j].line
OnceInv == \A f \in DOMAIN source : ~Included(f) => Claims(f)

-----------------------------------------------------------------------------
(* What the lines of a file say.                                             *)

\* The files that exist are sequences of lines.
LEMMA FileShape ==
  ASSUME source \in Sources, NEW f \in DOMAIN source
  PROVE  /\ Lines(f) = source[f]
         /\ f \in File
         /\ Len(source[f]) \in Nat
         /\ source[f] \in Seq(Line)
         /\ DOMAIN source[f] = 1..Len(source[f])
  BY PreprocessorAssumption DEF Lines

\* A conditional that is entered, turned or left leaves branches.
LEMMA FrontOfIfs ==
  ASSUME NEW p \in Seq(BOOLEAN), p # <<>>
  PROVE  /\ Front(p) \in Seq(BOOLEAN)
         /\ Append(Front(p), ~p[Len(p)]) \in Seq(BOOLEAN)
<1>1. Front(p) \in Seq(BOOLEAN)
  BY DEF Front
<1>2. (~p[Len(p)]) \in BOOLEAN
  OBVIOUS
<1> QED
  BY <1>1, <1>2, AppendProperties

LEMMA AroundShape ==
  ASSUME NEW p \in Seq(BOOLEAN), NEW l, NEW defined
  PROVE  Around(p, l, defined) \in Seq(BOOLEAN)
<1>1. Append(p, l.macro \in defined) \in Seq(BOOLEAN)
  <2>1. (l.macro \in defined) \in BOOLEAN
    OBVIOUS
  <2> QED
    BY <2>1, AppendProperties
<1> QED
  BY <1>1, FrontOfIfs, Zenon DEF Around

\* Branches follows its recursion.
LEMMA BranchesOfShape ==
  ASSUME NEW ls \in Seq(Line), NEW defined
  PROVE  /\ BranchesOf(ls, defined)[0] = <<>>
         /\ \A i \in 1..Len(ls) :
              BranchesOf(ls, defined)[i] = Around(BranchesOf(ls, defined)[i - 1], ls[i], defined)
         /\ \A i \in 0..Len(ls) : BranchesOf(ls, defined)[i] \in Seq(BOOLEAN)
<1> DEFINE n == Len(ls)
           Solves(b) == b = [i \in 0..n |-> IF i = 0 THEN <<>> ELSE Around(b[i - 1], ls[i], defined)]
           F == [i \in 1..n |-> [p \in Seq(BOOLEAN) |-> Around(p, ls[i], defined)]]
<1>1. n \in Nat /\ <<>> \in Seq(BOOLEAN)
  OBVIOUS
<1>2. F \in Steps(n, Seq(BOOLEAN))
  BY AroundShape DEF Steps
<1>3. PICK b \in [0..n -> Seq(BOOLEAN)] :
        \A i \in 0..n : b[i] = IF i = 0 THEN <<>> ELSE F[i][b[i - 1]]
  <2> HIDE DEF F, n
  <2> QED
    <3>1. Solved(n, Seq(BOOLEAN), <<>>, F)
      BY <1>1, <1>2, Solution
    <3> QED
      BY <3>1, Zenon DEF Solved
<1>4. \A i \in 0..n : b[i] = IF i = 0 THEN <<>> ELSE Around(b[i - 1], ls[i], defined)
  <2>1. \A i \in 0..n : i # 0 => i \in 1..n /\ b[i - 1] \in Seq(BOOLEAN)
    BY <1>1
  <2>2. \A i \in 1..n, p \in Seq(BOOLEAN) : F[i][p] = Around(p, ls[i], defined)
    OBVIOUS
  <2> HIDE DEF F, n
  <2> QED
    BY <1>3, <2>1, <2>2
<1>5. Solves(b)
  <2>1. b = [i \in 0..n |-> b[i]]
    OBVIOUS
  <2> HIDE DEF n
  <2> QED
    BY <1>4, <2>1
<1>6. BranchesOf(ls, defined) = CHOOSE c : Solves(c)
  BY DEF BranchesOf
<1>7. Solves(BranchesOf(ls, defined))
  <2> HIDE DEF Solves
  <2> QED
    BY <1>5, <1>6
<1>8. \A i \in 0..n : BranchesOf(ls, defined)[i] = IF i = 0 THEN <<>> ELSE Around(BranchesOf(ls, defined)[i - 1], ls[i], defined)
  <2> HIDE DEF n
  <2> QED
    BY <1>7
<1>9. BranchesOf(ls, defined)[0] = <<>> /\ \A i \in 1..n : BranchesOf(ls, defined)[i] = Around(BranchesOf(ls, defined)[i - 1], ls[i], defined)
  <2> HIDE DEF n
  <2> QED
    BY <1>1, <1>8
<1>10. \A i \in 0..n : BranchesOf(ls, defined)[i] \in Seq(BOOLEAN)
  <2> DEFINE T == {k \in 0..n : BranchesOf(ls, defined)[k] \in Seq(BOOLEAN)}
  <2> HIDE DEF n
  <2>1. 0 \in T
    <3>1. BranchesOf(ls, defined)[0] \in Seq(BOOLEAN) /\ 0 \in 0..n
      BY <1>1, <1>9
    <3> QED
      BY <3>1
  <2>2. \A i \in 1..n : i - 1 \in T => i \in T
    BY <1>1, <1>9, AroundShape
  <2>3. \A i \in 0..n : i \in T
    <3> HIDE DEF T
    <3> QED
      BY <1>1, <2>1, <2>2, Upwards
  <2> QED
    BY <2>3
<1> QED
  BY <1>9, <1>10

\* The states of a walk through a file.
Walked == [ifs : Seq(BOOLEAN), over : BOOLEAN]

LEMMA GoShape ==
  ASSUME NEW w \in Walked, NEW l, NEW defined
  PROVE  Go(w, l, defined) \in Walked
<1>1. w.ifs \in Seq(BOOLEAN) /\ w.over \in BOOLEAN
  BY DEF Walked
<1>2. Append(w.ifs, l.macro \in defined) \in Seq(BOOLEAN)
  <2>1. (l.macro \in defined) \in BOOLEAN
    OBVIOUS
  <2> QED
    BY <1>1, <2>1, AppendProperties
<1>3. w.ifs # <<>> => /\ Front(w.ifs) \in Seq(BOOLEAN)
                      /\ Append(Front(w.ifs), ~w.ifs[Len(w.ifs)]) \in Seq(BOOLEAN)
  BY <1>1, FrontOfIfs
<1>4. \A p \in Seq(BOOLEAN), o \in BOOLEAN : [ifs |-> p, over |-> o] \in Walked
  BY DEF Walked
<1> QED
  BY <1>1, <1>2, <1>3, <1>4, Zenon DEF Go

\* Walk follows its recursion.
LEMMA WalkOfShape ==
  ASSUME NEW ls \in Seq(Line), NEW defined
  PROVE  /\ WalkOf(ls, defined)[0] = [ifs |-> <<>>, over |-> FALSE]
         /\ \A i \in 1..Len(ls) : WalkOf(ls, defined)[i] = Go(WalkOf(ls, defined)[i - 1], ls[i], defined)
<1> DEFINE n == Len(ls)
           z == [ifs |-> <<>>, over |-> FALSE]
           Solves(w) == w = [i \in 0..n |-> IF i = 0 THEN [ifs |-> <<>>, over |-> FALSE]
                                            ELSE Go(w[i - 1], ls[i], defined)]
           F == [i \in 1..n |-> [p \in Walked |-> Go(p, ls[i], defined)]]
<1>1. n \in Nat /\ z \in Walked
  BY DEF Walked
<1>2. F \in Steps(n, Walked)
  BY GoShape DEF Steps
<1>3. PICK b \in [0..n -> Walked] :
        \A i \in 0..n : b[i] = IF i = 0 THEN z ELSE F[i][b[i - 1]]
  <2> HIDE DEF F, n, z
  <2> QED
    <3>1. Solved(n, Walked, z, F)
      BY <1>1, <1>2, Solution
    <3> QED
      BY <3>1, Zenon DEF Solved
<1>4. \A i \in 0..n : b[i] = IF i = 0 THEN z ELSE Go(b[i - 1], ls[i], defined)
  <2>1. \A i \in 0..n : i # 0 => i \in 1..n /\ b[i - 1] \in Walked
    BY <1>1
  <2>2. \A i \in 1..n, p \in Walked : F[i][p] = Go(p, ls[i], defined)
    OBVIOUS
  <2> HIDE DEF F, n, z
  <2> QED
    BY <1>3, <2>1, <2>2
<1>5. Solves(b)
  <2>1. b = [i \in 0..n |-> b[i]]
    OBVIOUS
  <2> HIDE DEF n
  <2> QED
    BY <1>4, <2>1
<1>6. WalkOf(ls, defined) = CHOOSE c : Solves(c)
  BY DEF WalkOf
<1>7. Solves(WalkOf(ls, defined))
  <2> HIDE DEF Solves
  <2> QED
    BY <1>5, <1>6
<1>8. \A i \in 0..n : WalkOf(ls, defined)[i] = IF i = 0 THEN z ELSE Go(WalkOf(ls, defined)[i - 1], ls[i], defined)
  <2> HIDE DEF n
  <2> QED
    BY <1>7
<1> HIDE DEF n
<1>9. WalkOf(ls, defined)[0] = z /\ \A i \in 1..n : WalkOf(ls, defined)[i] = Go(WalkOf(ls, defined)[i - 1], ls[i], defined)
  BY <1>1, <1>8
<1> QED
  BY <1>9 DEF n

-----------------------------------------------------------------------------
(* What a step does, in four cases that the invariants need to distinguish. *)

Includes == {"include", "include_once"}

\* The innermost cursor goes on, over the line below an #<endif, too.
Move(n, i) ==
  /\ n \in {1, 2}
  /\ Top.line \in DOMAIN source[Top.file]
  /\ Go([ifs |-> Top.ifs, over |-> FALSE], Current, macros) = [ifs |-> i, over |-> n = 2]
  /\ n = 2 => Current.kind = "endif"
  /\ Current.kind \in Includes /\ Expanding(Top) =>
       Current.kind = "include_once" /\ Current.file \in included
  /\ open' = [open EXCEPT ![Len(open)] = [Top EXCEPT !.line = @ + n, !.ifs = i]]
  /\ dst' = IF Current.kind = "text" THEN Append(dst, <<Top.file, Top.line>>) ELSE dst
  /\ status = "expanding"
  /\ UNCHANGED <<source, macros, included, status>>

\* A file is opened.
Push(once) ==
  /\ OnDirective(Top)
  /\ Current = [kind |-> IF once THEN "include_once" ELSE "include", file |-> Current.file]
  /\ Current.file \in DOMAIN source
  /\ once => Current.file \notin included
  /\ open' = Append(open, Enter(Current.file, once))
  /\ status = "expanding"
  /\ UNCHANGED <<source, macros, included, dst, status>>

\* A file is left.
Pop ==
  /\ AtEof
  /\ ~InIf
  /\ Len(open) # 1
  /\ open' = [Front(open) EXCEPT ![Len(open) - 1].line = @ + 1]
  /\ included' = IF Top.once THEN included \cup {Top.file} ELSE included
  /\ status = "expanding"
  /\ UNCHANGED <<source, macros, dst, status>>

\* The expansion ends.
Stay ==
  /\ UNCHANGED <<source, macros, open, included, dst>>
  /\ \/ status' \in {status, "preprocessor_error", "invalid_argument"}
     \/ status' = "done" /\ Len(open) = 1 /\ AtEof

\* The line under the cursor.
LEMMA CurrentLine ==
  ASSUME PreprocessorInv, ~AtEof
  PROVE  /\ Top.line \in DOMAIN source[Top.file]
         /\ Current \in Line
         /\ Current = Lines(Top.file)[Top.line]
<1>1. Top.file \in DOMAIN source /\ Top.line \in Nat \ {0}
  BY TopIsFrame
<1>2. source[Top.file] \in Seq(Line) /\ Lines(Top.file) = source[Top.file]
  BY <1>1, FileShape DEF PreprocessorInv
<1>3. Top.line \in 1..Len(source[Top.file])
  <2>1. Len(source[Top.file]) \in Nat
    BY <1>2
  <2> QED
    BY <1>1, <2>1 DEF AtEof
<1>4. Current \in Line
  BY <1>2, <1>3, ElementOfSeq DEF Current
<1> QED
  BY <1>2, <1>3, <1>4 DEF Current

\* A directive is stepped over, and stays in the same conditionals.
LEMMA SkipMoves ==
  ASSUME PreprocessorInv, status = "expanding", ~AtEof, Skip,
         Current.kind \notin {"text", "endif", "else"},
         Current.kind = "ifdef" => ~Expands,
         Current.kind \in Includes /\ Expands =>
           Current.kind = "include_once" /\ Current.file \in included
  PROVE  Move(1, Top.ifs)
<1>1. Top.line \in DOMAIN source[Top.file]
  BY CurrentLine
<1>2. Expanding(Top) <=> Expands
  BY DEF Expanding, Expands, InIf
<1> DEFINE w == [ifs |-> Top.ifs, over |-> FALSE]
<1>3. w.ifs = Top.ifs /\ w.over = FALSE /\ (Expanding(w) <=> Expands)
  BY DEF Expanding, Expands, InIf
<1>4. Go(w, Current, macros) = w
  <2> HIDE DEF w
  <2> QED
    BY <1>3, Zenon DEF Go
<1>5. (1 = 2) = FALSE
  OBVIOUS
<1> QED
  BY <1>1, <1>2, <1>4, <1>5 DEF Move, Skip, Advance

\* A step inside of a file is a move.
LEMMA LineMoves ==
  ASSUME PreprocessorInv, NEW n \in {1, 2}, NEW i, status = "expanding", ~AtEof,
         Current.kind \notin Includes,
         Go([ifs |-> Top.ifs, over |-> FALSE], Current, macros) = [ifs |-> i, over |-> n = 2],
         n = 2 => Current.kind = "endif",
         Advance(n, i), UNCHANGED <<source, macros, included, status>>,
         dst' = IF Current.kind = "text" THEN Append(dst, <<Top.file, Top.line>>) ELSE dst
  PROVE  Move(n, i)
<1>1. Top.line \in DOMAIN source[Top.file]
  BY CurrentLine
<1> QED
  BY <1>1 DEF Move, Advance

\* A file is opened, or the expansion is given up.
LEMMA OpenPushes ==
  ASSUME PreprocessorInv, status = "expanding", ~AtEof, Expands,
         NEW once \in BOOLEAN, once => Current.file \notin included,
         Current.kind = IF once THEN "include_once" ELSE "include",
         Open(Current.file, once)
  PROVE  Push(once) \/ Stay
<1>1. Expanding(Top)
  BY DEF Expanding, Expands, InIf
<1>2. OnDirective(Top)
  BY <1>1, CurrentLine DEF OnDirective, Lines
<1>3. Current = [kind |-> Current.kind, file |-> Current.file]
  <2>1. Current \in Line
    BY CurrentLine
  <2>2. Current \in [kind : {"include", "include_once"}, file : File]
    <3> HIDE DEF Current
    <3> QED
      BY <2>1 DEF Line
  <2> HIDE DEF Current
  <2> QED
    BY <2>2
<1>4. CASE Current.file \in DOMAIN source /\ ~(Len(open) >= MaxNesting)
  <2>1. /\ open' = Append(open, Enter(Current.file, once))
        /\ UNCHANGED <<source, macros, included, dst, status>>
    BY <1>4 DEF Open
  <2> QED
    BY <1>2, <1>3, <1>4, <2>1 DEF Push
<1>5. CASE ~(Current.file \in DOMAIN source /\ ~(Len(open) >= MaxNesting))
  BY <1>5 DEF Open, Fail, Stay
<1> QED
  BY <1>4, <1>5

\* Every step is one of these.
LEMMA StepShape ==
  ASSUME PreprocessorInv, [Next]_vars
  PROVE  \/ Stay
         \/ \E n \in {1, 2}, i \in Seq(BOOLEAN) : Move(n, i)
         \/ \E once \in BOOLEAN : Push(once)
         \/ Pop
<1> DEFINE w == [ifs |-> Top.ifs, over |-> FALSE]
<1>1. w.ifs = Top.ifs /\ w.over = FALSE /\ (Expanding(w) <=> Expands) /\ (w.ifs # <<>> <=> InIf)
  BY DEF Expanding, Expands, InIf
<1>2. Top.ifs \in Seq(BOOLEAN)
  BY TopIsFrame
<1>3. (1 = 2) = FALSE /\ (2 = 2) = TRUE
  OBVIOUS
<1>4. w = [ifs |-> Top.ifs, over |-> FALSE]
  OBVIOUS
<1> HIDE DEF w
<1>5. CASE Text
  <2>1. Current.kind = "text" /\ ~AtEof /\ status = "expanding"
    BY <1>5 DEF Text, At
  <2>2. Go(w, Current, macros) = w
    BY <1>1, <2>1, Zenon DEF Go
  <2>3. Move(1, Top.ifs)
    BY <1>3, <1>4, <1>5, <2>1, <2>2, LineMoves DEF Text, Includes
  <2> QED
    BY <1>2, <2>3
<1>6. CASE Ifdef
  <2>1. Current.kind = "ifdef" /\ ~AtEof /\ status = "expanding"
    BY <1>6 DEF Ifdef, At
  <2>2. CASE Expands
    <3>1. Go(w, Current, macros) = [ifs |-> Append(Top.ifs, Current.macro \in macros), over |-> FALSE]
      BY <1>1, <2>1, <2>2, Zenon DEF Go
    <3>2. Append(Top.ifs, Current.macro \in macros) \in Seq(BOOLEAN)
      <4>1. (Current.macro \in macros) \in BOOLEAN
        OBVIOUS
      <4> QED
        BY <1>2, <4>1, AppendProperties
    <3>3. Move(1, Append(Top.ifs, Current.macro \in macros))
      BY <1>3, <1>4, <1>6, <2>1, <2>2, <3>1, LineMoves DEF Ifdef, Includes
    <3> QED
      BY <3>2, <3>3
  <2>3. CASE ~Expands
    <3>1. Move(1, Top.ifs)
      BY <1>6, <2>1, <2>3, SkipMoves DEF Ifdef, Includes
    <3> QED
      BY <1>2, <3>1
  <2> QED
    BY <2>2, <2>3
<1>7. CASE Else
  <2>1. Current.kind = "else" /\ ~AtEof /\ status = "expanding"
    BY <1>7 DEF Else, At
  <2>2. CASE InIf
    <3> DEFINE i == Append(Front(Top.ifs), ~Top.ifs[Len(Top.ifs)])
    <3>1. Go(w, Current, macros) = [ifs |-> i, over |-> FALSE]
      BY <1>1, <2>1, <2>2, Zenon DEF Go
    <3>2. i \in Seq(BOOLEAN)
      BY <1>2, <2>2, FrontOfIfs DEF InIf
    <3>3. Advance(1, i) /\ UNCHANGED <<source, macros, included, dst, status>>
      BY <1>7, <2>2 DEF Else
    <3> HIDE DEF i
    <3>4. Move(1, i)
      BY <1>3, <1>4, <2>1, <3>1, <3>3, LineMoves DEF Includes
    <3> QED
      BY <3>2, <3>4
  <2>3. CASE ~InIf
    BY <1>7, <2>3 DEF Else, Fail, Stay
  <2> QED
    BY <2>2, <2>3
<1>8. CASE Endif
  <2>1. Current.kind = "endif" /\ ~AtEof /\ status = "expanding"
    BY <1>8 DEF Endif, At
  <2>2. CASE InIf
    <3> DEFINE i == Front(Top.ifs)
    <3>1. Go(w, Current, macros) = [ifs |-> i, over |-> TRUE]
      BY <1>1, <2>1, <2>2, Zenon DEF Go
    <3>2. i \in Seq(BOOLEAN)
      BY <1>2, <2>2, FrontOfIfs DEF InIf
    <3>3. Advance(2, i) /\ UNCHANGED <<source, macros, included, dst, status>>
      BY <1>8, <2>2 DEF Endif
    <3> HIDE DEF i
    <3>4. Move(2, i)
      BY <1>3, <1>4, <2>1, <3>1, <3>3, LineMoves DEF Includes
    <3> QED
      BY <3>2, <3>4
  <2>3. CASE ~InIf
    BY <1>8, <2>3 DEF Endif, Fail, Stay
  <2> QED
    BY <2>2, <2>3
<1>9. CASE Include
  <2>1. Current.kind = "include" /\ ~AtEof /\ status = "expanding"
    BY <1>9 DEF Include, At
  <2>2. CASE Expands
    <3>1. Open(Current.file, FALSE)
      BY <1>9, <2>2 DEF Include
    <3> QED
      BY <2>1, <2>2, <3>1, OpenPushes
  <2>3. CASE ~Expands
    <3>1. Skip
      BY <1>9, <2>3 DEF Include
    <3>2. Move(1, Top.ifs)
      BY <2>1, <2>3, <3>1, SkipMoves
    <3> QED
      BY <1>2, <3>2
  <2> QED
    BY <2>2, <2>3
<1>10. CASE IncludeOnce
  <2>1. Current.kind = "include_once" /\ ~AtEof /\ status = "expanding"
    BY <1>10 DEF IncludeOnce, At
  <2>2. CASE Expands /\ Current.file \notin included
    <3>1. Open(Current.file, TRUE)
      BY <1>10, <2>2 DEF IncludeOnce
    <3> QED
      BY <2>1, <2>2, <3>1, OpenPushes
  <2>3. CASE ~(Expands /\ Current.file \notin included)
    <3>1. Skip
      BY <1>10, <2>3 DEF IncludeOnce
    <3>2. Move(1, Top.ifs)
      BY <2>1, <2>3, <3>1, SkipMoves
    <3> QED
      BY <1>2, <3>2
  <2> QED
    BY <2>2, <2>3
<1>11. CASE Error
  <2>1. Current.kind = "error" /\ ~AtEof /\ status = "expanding"
    BY <1>11 DEF Error, At
  <2>2. CASE Expands
    BY <1>11, <2>2 DEF Error, Fail, Stay
  <2>3. CASE ~Expands
    <3>1. Move(1, Top.ifs)
      BY <1>11, <2>1, <2>3, SkipMoves DEF Error, Includes
    <3> QED
      BY <1>2, <3>1
  <2> QED
    BY <2>2, <2>3
<1>12. CASE Malformed
  BY <1>12 DEF Malformed, Fail, Stay
<1>13. CASE Eof
  <2>1. CASE InIf \/ Len(open) = 1
    BY <1>13, <2>1 DEF Eof, Fail, Stay
  <2>2. CASE ~(InIf \/ Len(open) = 1)
    BY <1>13, <2>2, Zenon DEF Eof, Pop
  <2> QED
    BY <2>1, <2>2
<1>14. CASE UNCHANGED vars
  BY <1>14 DEF vars, Stay
<1> QED
  BY <1>5, <1>6, <1>7, <1>8, <1>9, <1>10, <1>11, <1>12, <1>13, <1>14 DEF Next

-----------------------------------------------------------------------------
(* The open files after a step. *)

LEMMA FrameAdvances ==
  ASSUME NEW f \in Frame, NEW n \in Nat, NEW s \in Seq(BOOLEAN)
  PROVE  LET g == [f EXCEPT !.line = @ + n, !.ifs = s]
         IN  g \in Frame /\ g.file = f.file /\ g.line = f.line + n /\ g.ifs = s /\ g.once = f.once
<1>1. \A l \in Nat :
        LET g == [f EXCEPT !.line = l, !.ifs = s]
        IN  g \in Frame /\ g.file = f.file /\ g.line = l /\ g.ifs = s /\ g.once = f.once
  BY DEF Frame
<1>2. f.line + n \in Nat
  BY DEF Frame
<1> QED
  BY <1>1, <1>2

LEMMA MoveShape ==
  ASSUME PreprocessorInv, NEW n \in {1, 2}, NEW i \in Seq(BOOLEAN), Move(n, i)
  PROVE  /\ Len(open) \in Nat \ {0} /\ Len(open') = Len(open)
         /\ \A k \in 1..Len(open) : k # Len(open) => open'[k] = open[k]
         /\ open[Len(open)] = Top
         /\ open'[Len(open)].file = Top.file
         /\ open'[Len(open)].line = Top.line + n
         /\ open'[Len(open)].ifs = i
         /\ open'[Len(open)].once = Top.once
<1> DEFINE top == [Top EXCEPT !.line = @ + n, !.ifs = i]
<1>1. Len(open) \in Nat \ {0} /\ Top \in Frame /\ open \in Seq(Frame)
  BY TopIsFrame DEF PreprocessorInv, TypeOK
<1>2. top \in Frame /\ top.file = Top.file /\ top.line = Top.line + n
        /\ top.ifs = i /\ top.once = Top.once
  <2>1. Top \in Frame /\ n \in Nat
    BY <1>1
  <2> QED
    BY <2>1, FrameAdvances
<1>3. open' = [open EXCEPT ![Len(open)] = top]
  BY DEF Move
<1> HIDE DEF top
<1>4. /\ Len(open') = Len(open)
      /\ \A k \in 1..Len(open) : open'[k] = IF k = Len(open) THEN top ELSE open[k]
  BY <1>1, <1>2, <1>3, ExceptSeq
<1>5. Len(open) \in 1..Len(open)
  BY <1>1
<1>6. open'[Len(open)] = top
  BY <1>4, <1>5
<1> QED
  BY <1>1, <1>2, <1>4, <1>6 DEF Top

LEMMA PushShape ==
  ASSUME PreprocessorInv, NEW once \in BOOLEAN, Push(once)
  PROVE  /\ Len(open) \in Nat \ {0} /\ Len(open') = Len(open) + 1
         /\ \A k \in 1..Len(open) : open'[k] = open[k]
         /\ open[Len(open)] = Top
         /\ open'[Len(open) + 1] = Enter(Current.file, once)
<1>1. Len(open) \in Nat \ {0} /\ open \in Seq(Frame)
  BY TopIsFrame DEF PreprocessorInv, TypeOK
<1>2. Current.file \in File
  BY FileShape DEF Push, PreprocessorInv
<1>3. Enter(Current.file, once) \in Frame
  BY <1>2 DEF Enter, Frame
<1>4. open' = Append(open, Enter(Current.file, once))
  BY DEF Push
<1> QED
  BY <1>1, <1>3, <1>4, AppendProperties DEF Top

LEMMA PopShape ==
  ASSUME PreprocessorInv, Pop, NEW b, b = Len(open) - 1
  PROVE  /\ Len(open) \in Nat /\ b \in Nat \ {0} /\ Len(open) = b + 1 /\ Len(open') = b
         /\ \A k \in 1..b : k # b => open'[k] = open[k]
         /\ open[Len(open)] = Top
         /\ open'[b].file = open[b].file
         /\ open'[b].line = open[b].line + 1
         /\ open'[b].ifs = open[b].ifs
         /\ open'[b].once = open[b].once
<1>1. Len(open) \in Nat \ {0} /\ open \in Seq(Frame) /\ Len(open) # 1
  BY TopIsFrame DEF PreprocessorInv, TypeOK, Pop
<1>2. b \in Nat \ {0} /\ b \in 1..Len(open) /\ Len(open) = b + 1
  BY <1>1
<1>3. /\ Front(open) \in Seq(Frame)
      /\ Len(Front(open)) = b
      /\ \A k \in 1..b : Front(open)[k] = open[k]
  BY <1>1, <1>2 DEF Front
<1> DEFINE f == [open[b] EXCEPT !.line = @ + 1]
<1>4. open[b] \in Frame
  BY <1>1, <1>2, ElementOfSeq
<1>5. f \in Frame /\ f.file = open[b].file /\ f.line = open[b].line + 1
        /\ f.ifs = open[b].ifs /\ f.once = open[b].once
  BY <1>4 DEF Frame
<1>6. b \in 1..b
  BY <1>2
<1>7. open' = [Front(open) EXCEPT ![b] = f]
  BY <1>3, <1>6 DEF Pop
<1> HIDE DEF f
<1>8. Len(open') = b /\ \A k \in 1..b : open'[k] = IF k = b THEN f ELSE open[k]
  BY <1>3, <1>5, <1>6, <1>7, ExceptSeq
<1>9. open'[b] = f
  BY <1>6, <1>8
<1> QED
  BY <1>1, <1>2, <1>5, <1>8, <1>9 DEF Top

-----------------------------------------------------------------------------
(* The stack of open files. *)

\* What is said of a file that is open only looks at the file system and the
\* names that are defined, which never change.
LEMMA SameFiles ==
  ASSUME source' = source, macros' = macros
  PROVE  /\ \A o : AsWalked(o)' <=> AsWalked(o)
         /\ \A o, n : OpenedBy(o, n)' <=> OpenedBy(o, n)
         /\ \A o : OnDirective(o)' <=> OnDirective(o)
         /\ \A o : AsNested(o)' <=> AsNested(o)
         /\ Regular' <=> Regular
<1>1. \A o : AsWalked(o)' <=> AsWalked(o)
  BY DEF AsWalked, Walk, Lines
<1>2. \A o, n : OpenedBy(o, n)' <=> OpenedBy(o, n)
  BY DEF OpenedBy, OnDirective, Lines, Expanding
<1>3. \A o : OnDirective(o)' <=> OnDirective(o)
  BY DEF OnDirective, Lines, Expanding
<1>4. \A o : AsNested(o)' <=> AsNested(o)
  BY DEF AsNested, Branches, Lines
<1>5. Regular' <=> Regular
  BY DEF Regular, Branches
<1> QED
  BY <1>1, <1>2, <1>3, <1>4, <1>5

\* The files that are open.
LEMMA OpenShape ==
  ASSUME PreprocessorInv, NEW k \in 1..Len(open)
  PROVE  /\ open[k].file \in DOMAIN source
         /\ open[k].line \in Nat \ {0}
         /\ open[k].ifs \in Seq(BOOLEAN)
         /\ open[k].once \in BOOLEAN
         /\ Lines(open[k].file) = source[open[k].file]
         /\ Len(Lines(open[k].file)) \in Nat
         /\ DOMAIN Lines(open[k].file) = 1..Len(Lines(open[k].file))
         /\ source[open[k].file] \in Seq(Line)
<1>1. open \in Seq(Frame)
  BY DEF PreprocessorInv, TypeOK
<1>2. open[k] \in Frame
  BY <1>1, ElementOfSeq
<1>3. /\ open[k].line \in Nat
      /\ open[k].ifs \in Seq(BOOLEAN)
      /\ open[k].once \in BOOLEAN
  BY <1>2 DEF Frame
<1>4. open[k].file \in DOMAIN source /\ open[k].line >= 1
  BY DEF PreprocessorInv
<1>5. source \in Sources
  BY DEF PreprocessorInv
<1>6. /\ Lines(open[k].file) = source[open[k].file]
      /\ Len(source[open[k].file]) \in Nat
      /\ DOMAIN source[open[k].file] = 1..Len(source[open[k].file])
      /\ source[open[k].file] \in Seq(Line)
  BY <1>4, <1>5, FileShape
<1> QED
  BY <1>3, <1>4, <1>6

\* Where a file goes on when the line under its cursor is done with.
LEMMA WalkGoesOn ==
  ASSUME PreprocessorInv, NEW k \in 1..Len(open), AsWalked(open[k]),
         NEW l, l = open[k].line, l \in DOMAIN Lines(open[k].file),
         NEW w, w = Walk(open[k].file)
  PROVE  /\ l \in Nat /\ Len(Lines(open[k].file)) \in Nat
         /\ w[l - 1] = [ifs |-> open[k].ifs, over |-> FALSE]
         /\ w[l] = Go([ifs |-> open[k].ifs, over |-> FALSE], Lines(open[k].file)[l], macros)
         /\ l + 1 \in DOMAIN Lines(open[k].file) =>
              w[l + 1] = Go(w[l], Lines(open[k].file)[l + 1], macros)
<1> DEFINE ls == Lines(open[k].file)
<1>1. /\ ls \in Seq(Line) /\ ls = source[open[k].file]
      /\ Len(ls) \in Nat /\ DOMAIN ls = 1..Len(ls)
  BY OpenShape
<1>2. w = WalkOf(ls, macros)
  BY <1>1 DEF Walk
<1>3. w[l - 1] = [ifs |-> open[k].ifs, over |-> FALSE]
  BY <1>1 DEF AsWalked
<1> HIDE DEF ls
<1>4. \A i \in 1..Len(ls) : w[i] = Go(w[i - 1], ls[i], macros)
  BY <1>1, <1>2, WalkOfShape
<1>5. l \in 1..Len(ls) /\ l \in Nat
  BY <1>1 DEF ls
<1>6. w[l] = Go(w[l - 1], ls[l], macros)
  BY <1>4, <1>5
<1>7. l + 1 \in DOMAIN ls => w[l + 1] = Go(w[l], ls[l + 1], macros)
  <2>1. (l + 1) - 1 = l
    BY <1>5
  <2> QED
    BY <1>1, <1>4, <2>1
<1> QED
  BY <1>1, <1>3, <1>5, <1>6, <1>7 DEF ls

\* Twice open: when the inner cursor is on the line of the outer one, it opens
\* the next file again.
LEMMA TwinRepeats ==
  ASSUME PreprocessorInv, StackInv, NEW j \in 1..Len(open), NEW k \in 1..Len(open),
         j < k, open[j].file = open[k].file, open[j].line = open[k].line
  PROVE  /\ OpenedBy(open[j], open[j + 1]) /\ j + 1 \in 1..Len(open) /\ j + 1 <= k
         /\ open[k].ifs = open[j].ifs
         /\ Lines(open[k].file)[open[k].line] = Lines(open[j].file)[open[j].line]
<1>1. OpenedBy(open[j], open[j + 1]) /\ j + 1 \in 1..Len(open) /\ j + 1 <= k
  <2>1. Len(open) \in Nat
    BY TopIsFrame
  <2>2. j < Len(open) /\ j + 1 \in 1..Len(open) /\ j + 1 <= k
    BY <2>1
  <2> QED
    BY <2>2 DEF StackInv, Chained
<1>2. open[j].line <= Len(Lines(open[j].file))
  BY <1>1, OpenShape DEF OpenedBy, OnDirective
<1>3. AsWalked(open[j]) /\ AsWalked(open[k])
  BY DEF StackInv, Walking
<1>4. [ifs |-> open[k].ifs, over |-> FALSE] = [ifs |-> open[j].ifs, over |-> FALSE]
  BY <1>2, <1>3, Zenon DEF AsWalked
<1>5. open[k].ifs = open[j].ifs
  BY <1>4
<1> QED
  BY <1>1, <1>5, Zenon

\* Hence a cursor at the end of its file is the only one in it.
LEMMA NoTwinAtEof ==
  ASSUME PreprocessorInv, StackInv, AtEof, NEW j \in 1..Len(open), j # Len(open)
  PROVE  open[j].file # Top.file
<1>1. SUFFICES ASSUME open[j].file = Top.file
               PROVE  FALSE
  OBVIOUS
<1>2. Len(open) \in Nat /\ Len(open) \in 1..Len(open) /\ j < Len(open) /\ open[Len(open)] = Top
  BY TopIsFrame DEF Top
<1>3. Top.line <= open[j].line
  BY <1>1, <1>2 DEF StackInv, Ordered
<1>4. OpenedBy(open[j], open[j + 1])
  BY <1>2 DEF StackInv, Chained
<1>5. open[j].line <= Len(Lines(open[j].file)) /\ Len(Lines(open[j].file)) \in Nat
  BY <1>4, OpenShape DEF OpenedBy, OnDirective
<1>6. Top.line > Len(Lines(open[j].file))
  BY <1>1 DEF AtEof, Lines
<1>7. Top.line \in Nat /\ open[j].line \in Nat
  BY TopIsFrame, OpenShape
<1> QED
  BY <1>3, <1>5, <1>6, <1>7

\* Going on leaves a cursor where the walk through its file takes it.
LEMMA MoveWalks ==
  ASSUME PreprocessorInv, StackInv, NEW n \in {1, 2}, NEW i \in Seq(BOOLEAN), Move(n, i)
  PROVE  Walking'
<1>1. /\ Len(open) \in Nat \ {0} /\ Len(open') = Len(open)
      /\ \A k \in 1..Len(open) : k # Len(open) => open'[k] = open[k]
      /\ open[Len(open)] = Top
      /\ open'[Len(open)].file = Top.file
      /\ open'[Len(open)].line = Top.line + n
      /\ open'[Len(open)].ifs = i
  BY MoveShape
<1>2. \A o : AsWalked(o)' <=> AsWalked(o)
  BY SameFiles DEF Move
<1>3. \A k \in 1..Len(open) : k # Len(open) => AsWalked(open'[k])
  BY <1>1 DEF StackInv, Walking
<1>4. AsWalked(open'[Len(open)])
  <2> DEFINE l == Top.line
             ls == Lines(Top.file)
             w == Walk(Top.file)
             z == [ifs |-> Top.ifs, over |-> FALSE]
  <2>1. Len(open) \in 1..Len(open) /\ AsWalked(Top)
    BY <1>1 DEF StackInv, Walking
  <2>2. l \in DOMAIN ls /\ Current = ls[l]
    BY DEF Move, Current, Lines
  <2>3. /\ l \in Nat /\ Len(ls) \in Nat
        /\ w[l] = Go(z, ls[l], macros)
        /\ l + 1 \in DOMAIN ls => w[l + 1] = Go(w[l], ls[l + 1], macros)
    BY <1>1, <2>1, <2>2, WalkGoesOn
  <2>4. w[l] = [ifs |-> i, over |-> n = 2]
    BY <2>2, <2>3, Zenon DEF Move
  <2>5. CASE n = 1
    <3>1. (n = 2) = FALSE /\ (l + n) - 1 = l
      BY <2>3, <2>5
    <3>2. w[(l + n) - 1] = [ifs |-> i, over |-> FALSE]
      BY <2>4, <3>1
    <3> QED
      BY <1>1, <3>2 DEF AsWalked
  <2>6. CASE n = 2
    <3>1. (l + n) - 1 = l + 1
      BY <2>3, <2>6
    <3>2. w[l].ifs = i /\ w[l].over = TRUE
      <4>1. (n = 2) = TRUE
        BY <2>6
      <4>2. w[l] = [ifs |-> i, over |-> TRUE]
        BY <2>4, <4>1, Zenon
      <4> HIDE DEF w, l
      <4> QED
        BY <4>2
    <3>3. Go(w[l], ls[l + 1], macros) = [ifs |-> i, over |-> FALSE]
      BY <3>2, Zenon DEF Go
    <3>4. l + n <= Len(ls) => l + 1 \in DOMAIN ls
      <4>1. DOMAIN ls = 1..Len(ls)
        BY <1>1, <2>1, OpenShape
      <4> QED
        BY <2>3, <2>6, <4>1
    <3>5. l + n <= Len(ls) => w[(l + n) - 1] = [ifs |-> i, over |-> FALSE]
      BY <2>3, <3>1, <3>3, <3>4
    <3> QED
      BY <1>1, <3>5 DEF AsWalked
  <2> QED
    BY <2>5, <2>6
<1>5. \A k \in 1..Len(open') : AsWalked(open'[k])
  BY <1>1, <1>3, <1>4
<1> QED
  BY <1>2, <1>5 DEF Walking

\* A cursor does not step over a line on which another waits in its file.
LEMMA MoveKeepsOrder ==
  ASSUME PreprocessorInv, StackInv, NEW n \in {1, 2}, NEW i \in Seq(BOOLEAN), Move(n, i),
         NEW j \in 1..Len(open), j # Len(open), open[j].file = Top.file
  PROVE  Top.line + n <= open[j].line
<1>1. /\ Len(open) \in Nat \ {0} /\ Len(open) \in 1..Len(open) /\ j < Len(open)
      /\ open[Len(open)] = Top
  BY TopIsFrame DEF Top
<1>2. Top.line <= open[j].line /\ Top.line \in Nat /\ open[j].line \in Nat
  <2>1. Top.line <= open[j].line
    BY <1>1 DEF StackInv, Ordered
  <2> QED
    BY <2>1, TopIsFrame, OpenShape
<1>3. OpenedBy(open[j], open[j + 1]) /\ open[j].line \in DOMAIN Lines(Top.file)
  BY <1>1 DEF StackInv, Chained, OpenedBy, OnDirective
<1>4. Top.line # open[j].line
  <2>1. SUFFICES ASSUME open[j].line = Top.line
                 PROVE  FALSE
    OBVIOUS
  <2>2. /\ j + 1 \in 1..Len(open) /\ j + 1 <= Len(open)
        /\ Top.ifs = open[j].ifs
        /\ Lines(Top.file)[Top.line] = Lines(open[j].file)[open[j].line]
    BY <1>1, <2>1, TwinRepeats
  <2>3. Current = Lines(open[j].file)[open[j].line]
    BY <2>2 DEF Current, Lines
  <2>4. Current.kind \in Includes /\ Expanding(Top)
    BY <1>3, <2>2, <2>3 DEF OpenedBy, OnDirective, Expanding, Includes
  <2>5. Current.kind = "include_once" /\ Current.file \in included
    BY <2>4 DEF Move
  <2>6. Current = [kind |-> IF open[j + 1].once THEN "include_once" ELSE "include",
                   file |-> open[j + 1].file]
    BY <1>3, <2>3 DEF OpenedBy
  <2>7. open[j + 1].once /\ open[j + 1].file = Current.file
    BY <2>5, <2>6
  <2>8. open[j + 1].file \notin included
    BY <2>2, <2>7 DEF StackInv, Unregistered
  <2> QED
    BY <2>5, <2>7, <2>8
<1>5. CASE n = 1
  BY <1>2, <1>4, <1>5
<1>6. CASE n = 2
  <2>1. SUFFICES ASSUME open[j].line = Top.line + 1
                 PROVE  FALSE
    BY <1>2, <1>4, <1>6
  <2> DEFINE w == Walk(Top.file)
             z == [ifs |-> Top.ifs, over |-> FALSE]
  <2>2. AsWalked(Top) /\ AsWalked(open[j])
    BY <1>1 DEF StackInv, Walking
  <2>3. Top.line \in DOMAIN Lines(Top.file) /\ Current = Lines(Top.file)[Top.line]
    BY DEF Move, Current, Lines
  <2>4. w[Top.line] = Go(z, Current, macros)
    BY <1>1, <2>2, <2>3, WalkGoesOn
  <2>5. w[Top.line] = [ifs |-> i, over |-> n = 2]
    BY <2>4, Zenon DEF Move
  <2>6. w[open[j].line - 1] = [ifs |-> open[j].ifs, over |-> FALSE]
    BY <1>3, <2>2, WalkGoesOn
  <2>7. open[j].line - 1 = Top.line
    BY <1>2, <2>1
  <2>8. (n = 2) = TRUE
    BY <1>6
  <2>9. [ifs |-> i, over |-> TRUE] = [ifs |-> open[j].ifs, over |-> FALSE]
    BY <2>5, <2>6, <2>7, <2>8, Zenon
  <2>10. [ifs |-> i, over |-> TRUE].over = [ifs |-> open[j].ifs, over |-> FALSE].over
    BY <2>9, Zenon
  <2> QED
    BY <2>10
<1> QED
  BY <1>5, <1>6

LEMMA MoveKeepsStack ==
  ASSUME PreprocessorInv, StackInv, NEW n \in {1, 2}, NEW i \in Seq(BOOLEAN), Move(n, i)
  PROVE  StackInv'
<1>1. /\ Len(open) \in Nat \ {0} /\ Len(open') = Len(open)
      /\ \A k \in 1..Len(open) : k # Len(open) => open'[k] = open[k]
      /\ open[Len(open)] = Top
      /\ open'[Len(open)].file = Top.file
      /\ open'[Len(open)].line = Top.line + n
      /\ open'[Len(open)].once = Top.once
  BY MoveShape
<1>2. \A k \in 1..Len(open) : open'[k].file = open[k].file /\ open'[k].once = open[k].once
  BY <1>1
<1>3. included' = included /\ 1 \in 1..Len(open)
  BY <1>1 DEF Move
<1>4. Walking'
  BY MoveWalks
<1>5. Chained'
  <2>1. \A o, m : OpenedBy(o, m)' <=> OpenedBy(o, m)
    BY SameFiles DEF Move
  <2>2. \A k \in 1..Len(open) : k < Len(open) => OpenedBy(open'[k], open'[k + 1])
    <3>1. SUFFICES ASSUME NEW k \in 1..Len(open), k < Len(open)
                   PROVE  OpenedBy(open'[k], open'[k + 1])
      OBVIOUS
    <3>2. k + 1 \in 1..Len(open) /\ k # Len(open)
      BY <1>1, <3>1
    <3>3. OpenedBy(open[k], open[k + 1]) /\ open'[k] = open[k]
      BY <1>1, <3>1, <3>2 DEF StackInv, Chained
    <3>4. open'[k + 1].file = open[k + 1].file /\ open'[k + 1].once = open[k + 1].once
      BY <1>2, <3>2
    <3> QED
      BY <3>3, <3>4, Zenon DEF OpenedBy
  <2> QED
    BY <1>1, <2>1, <2>2 DEF Chained
<1>6. Ordered'
  <2>1. SUFFICES ASSUME NEW j \in 1..Len(open), NEW k \in 1..Len(open),
                        j < k, open'[j].file = open'[k].file
                 PROVE  open'[k].line <= open'[j].line
    BY <1>1 DEF Ordered
  <2>2. j # Len(open) /\ open'[j] = open[j] /\ open[j].file = open[k].file
    BY <1>1, <1>2, <2>1
  <2>3. CASE k = Len(open)
    BY <1>1, <2>2, <2>3, MoveKeepsOrder
  <2>4. CASE k # Len(open)
    BY <1>1, <2>1, <2>2, <2>4 DEF StackInv, Ordered
  <2> QED
    BY <2>3, <2>4
<1>7. Unregistered'
  BY <1>1, <1>2, <1>3 DEF StackInv, Unregistered
<1>8. (open[1].file = Main)'
  BY <1>2, <1>3 DEF StackInv
<1> QED
  BY <1>4, <1>5, <1>6, <1>7, <1>8 DEF StackInv

LEMMA PushKeepsStack ==
  ASSUME PreprocessorInv, StackInv, NEW once \in BOOLEAN, Push(once)
  PROVE  StackInv'
<1> DEFINE new == Enter(Current.file, once)
           L == Len(open)
<1>1. /\ L \in Nat \ {0} /\ Len(open') = L + 1
      /\ \A k \in 1..L : open'[k] = open[k]
      /\ open[L] = Top
      /\ open'[L + 1] = new
  BY PushShape
<1>2. new.file = Current.file /\ new.line = 1 /\ new.ifs = <<>> /\ new.once = once
  BY DEF Enter
<1> HIDE DEF new, L
<1>3. included' = included /\ source' = source /\ macros' = macros
  BY DEF Push
<1>4. \A k \in 1..Len(open') : k = L + 1 \/ k \in 1..L
  BY <1>1
<1>5. Walking'
  <2>1. \A o : AsWalked(o)' <=> AsWalked(o)
    BY <1>3, SameFiles
  <2>2. AsWalked(new)
    <3>1. Current.file \in DOMAIN source
      BY DEF Push
    <3>2. source[Current.file] \in Seq(Line)
      BY <3>1, FileShape DEF PreprocessorInv
    <3>3. Walk(Current.file)[0] = [ifs |-> <<>>, over |-> FALSE]
      BY <3>2, WalkOfShape DEF Walk
    <3>4. new.line - 1 = 0
      BY <1>2
    <3> QED
      BY <1>2, <3>3, <3>4, Zenon DEF AsWalked
  <2>3. \A k \in 1..Len(open') : AsWalked(open'[k])
    BY <1>1, <1>4, <2>2 DEF StackInv, Walking, L
  <2> QED
    BY <2>1, <2>3 DEF Walking
<1>6. Chained'
  <2>1. \A o, m : OpenedBy(o, m)' <=> OpenedBy(o, m)
    BY <1>3, SameFiles
  <2>2. OpenedBy(Top, new)
    BY <1>2, Zenon DEF Push, OpenedBy, OnDirective, Current, Lines
  <2>3. \A k \in 1..Len(open') : k < Len(open') => OpenedBy(open'[k], open'[k + 1])
    <3>1. SUFFICES ASSUME NEW k \in 1..Len(open'), k < Len(open')
                   PROVE  OpenedBy(open'[k], open'[k + 1])
      OBVIOUS
    <3>2. CASE k = L
      BY <1>1, <2>2, <3>2
    <3>3. CASE k # L
      <4>1. k \in 1..L /\ k + 1 \in 1..L /\ k < L
        BY <1>1, <3>1, <3>3
      <4>2. OpenedBy(open[k], open[k + 1])
        BY <4>1 DEF StackInv, Chained, L
      <4> QED
        BY <1>1, <4>1, <4>2
    <3> QED
      BY <3>2, <3>3
  <2> QED
    BY <2>1, <2>3 DEF Chained
<1>7. Ordered'
  <2>1. SUFFICES ASSUME NEW j \in 1..Len(open'), NEW k \in 1..Len(open'),
                        j < k, open'[j].file = open'[k].file
                 PROVE  open'[k].line <= open'[j].line
    BY DEF Ordered
  <2>2. j \in 1..L /\ open'[j] = open[j]
    BY <1>1, <1>4, <2>1
  <2>3. CASE k = L + 1
    <3>1. open[j].line \in Nat \ {0}
      BY <2>2, OpenShape DEF L
    <3> QED
      BY <1>1, <1>2, <2>2, <2>3, <3>1
  <2>4. CASE k # L + 1
    <3>1. k \in 1..L /\ open'[k] = open[k]
      BY <1>1, <1>4, <2>4
    <3> QED
      BY <2>1, <2>2, <3>1 DEF StackInv, Ordered, L
  <2> QED
    BY <2>3, <2>4
<1>8. Unregistered'
  <2>1. SUFFICES ASSUME NEW k \in 1..Len(open'), k = 1 \/ open'[k].once
                 PROVE  open'[k].file \notin included
    BY <1>3 DEF Unregistered
  <2>2. CASE k = L + 1
    <3>1. once
      BY <1>1, <1>2, <2>1, <2>2
    <3> QED
      BY <1>1, <1>2, <2>2, <3>1 DEF Push
  <2>3. CASE k # L + 1
    BY <1>1, <1>4, <2>1, <2>3 DEF StackInv, Unregistered, L
  <2> QED
    BY <2>2, <2>3
<1>9. (open[1].file = Main)'
  BY <1>1 DEF StackInv
<1> QED
  BY <1>5, <1>6, <1>7, <1>8, <1>9 DEF StackInv

LEMMA PopKeepsStack ==
  ASSUME PreprocessorInv, StackInv, Pop
  PROVE  StackInv'
<1> DEFINE b == Len(open) - 1
<1>1. /\ Len(open) \in Nat /\ b \in Nat \ {0} /\ Len(open) = b + 1 /\ Len(open') = b
      /\ \A k \in 1..b : k # b => open'[k] = open[k]
      /\ open[Len(open)] = Top
      /\ open'[b].file = open[b].file
      /\ open'[b].line = open[b].line + 1
      /\ open'[b].ifs = open[b].ifs
      /\ open'[b].once = open[b].once
  BY PopShape
<1> HIDE DEF b
<1>2. \A k \in 1..b : k \in 1..Len(open) /\ k < Len(open) /\ k + 1 \in 1..Len(open)
  BY <1>1
<1>3. \A k \in 1..b : open'[k].file = open[k].file /\ open'[k].once = open[k].once
  BY <1>1
<1>4. \A k \in 1..b : open[k].file # Top.file
  BY <1>1, <1>2, NoTwinAtEof DEF Pop
<1>5. \A k \in 1..b : OpenedBy(open[k], open[k + 1])
  BY <1>2 DEF StackInv, Chained
<1>6. source' = source /\ macros' = macros /\ b \in 1..b
  BY <1>1 DEF Pop
<1>7. Walking'
  <2>1. \A o : AsWalked(o)' <=> AsWalked(o)
    BY <1>6, SameFiles
  <2>2. AsWalked(open'[b])
    <3> DEFINE l == open[b].line
               w == Walk(open[b].file)
               z == [ifs |-> open[b].ifs, over |-> FALSE]
    <3>1. AsWalked(open[b]) /\ l \in DOMAIN Lines(open[b].file) /\ b \in 1..Len(open)
      BY <1>2, <1>5, <1>6 DEF StackInv, Walking, OpenedBy, OnDirective
    <3>2. l \in Nat /\ w[l] = Go(z, Lines(open[b].file)[l], macros)
      BY <3>1, WalkGoesOn
    <3>3. Lines(open[b].file)[l].kind \in {"include", "include_once"}
      BY <1>5, <1>6 DEF OpenedBy, OnDirective
    <3>4. Go(z, Lines(open[b].file)[l], macros) = z
      <4>1. z.over = FALSE
        OBVIOUS
      <4>2. /\ Lines(open[b].file)[l].kind # "ifdef"
            /\ Lines(open[b].file)[l].kind # "else"
            /\ Lines(open[b].file)[l].kind # "endif"
        BY <3>3
      <4> HIDE DEF z, l
      <4> QED
        BY <4>1, <4>2, Zenon DEF Go
    <3>5. (l + 1) - 1 = l
      BY <3>2
    <3> QED
      BY <1>1, <3>2, <3>4, <3>5 DEF AsWalked
  <2>3. \A k \in 1..b : k # b => AsWalked(open'[k])
    BY <1>1, <1>2 DEF StackInv, Walking
  <2>4. \A k \in 1..Len(open') : AsWalked(open'[k])
    BY <1>1, <2>2, <2>3
  <2> QED
    BY <2>1, <2>4 DEF Walking
<1>8. Chained'
  <2>1. \A o, m : OpenedBy(o, m)' <=> OpenedBy(o, m)
    BY <1>6, SameFiles
  <2>2. \A k \in 1..Len(open') : k < Len(open') => OpenedBy(open'[k], open'[k + 1])
    <3>1. SUFFICES ASSUME NEW k \in 1..b, k < b
                   PROVE  OpenedBy(open'[k], open'[k + 1])
      BY <1>1
    <3>2. k + 1 \in 1..b /\ k # b
      BY <1>1, <3>1
    <3>3. OpenedBy(open[k], open[k + 1]) /\ open'[k] = open[k]
      BY <1>1, <1>5, <3>1, <3>2
    <3>4. open'[k + 1].file = open[k + 1].file /\ open'[k + 1].once = open[k + 1].once
      BY <1>3, <3>2
    <3> QED
      BY <3>3, <3>4, Zenon DEF OpenedBy
  <2> QED
    BY <2>1, <2>2 DEF Chained
<1>9. Ordered'
  <2>1. SUFFICES ASSUME NEW j \in 1..b, NEW k \in 1..b,
                        j < k, open'[j].file = open'[k].file
                 PROVE  open'[k].line <= open'[j].line
    BY <1>1 DEF Ordered
  <2>2. j # b /\ open'[j] = open[j] /\ open[j].file = open[k].file
    BY <1>1, <1>3, <2>1
  <2>3. open[k].line <= open[j].line
    BY <1>2, <2>1, <2>2 DEF StackInv, Ordered
  <2>4. CASE k = b
    <3>1. open[j].line # open[b].line
      <4>1. SUFFICES ASSUME open[j].line = open[b].line
                     PROVE  FALSE
        OBVIOUS
      <4>2. Lines(open[b].file)[open[b].line] = Lines(open[j].file)[open[j].line]
        BY <2>2, <2>4, <4>1
      <4>3. OpenedBy(open[j], open[j + 1]) /\ OpenedBy(open[b], Top)
        BY <1>1, <1>5, <1>6
      <4>4. [kind |-> IF open[j + 1].once THEN "include_once" ELSE "include", file |-> open[j + 1].file]
              = [kind |-> IF Top.once THEN "include_once" ELSE "include", file |-> Top.file]
        BY <4>2, <4>3, Zenon DEF OpenedBy
      <4>5. open[j + 1].file = Top.file
        BY <4>4
      <4>6. j + 1 \in 1..b
        BY <1>1, <2>1, <2>4
      <4> QED
        BY <1>4, <4>5, <4>6
    <3>2. open[j].line \in Nat /\ open[b].line \in Nat
      BY <1>2, <1>6, OpenShape
    <3> QED
      BY <1>1, <2>2, <2>3, <2>4, <3>1, <3>2
  <2>5. CASE k # b
    BY <1>1, <2>2, <2>3, <2>5
  <2> QED
    BY <2>4, <2>5
<1>10. Unregistered'
  <2>1. SUFFICES ASSUME NEW k \in 1..b, k = 1 \/ open'[k].once
                 PROVE  open'[k].file \notin included'
    BY <1>1 DEF Unregistered
  <2>2. open[k].file \notin included
    BY <1>2, <1>3, <2>1 DEF StackInv, Unregistered
  <2>3. included' \subseteq included \cup {Top.file}
    BY DEF Pop
  <2> QED
    BY <1>3, <1>4, <2>2, <2>3
<1>11. (open[1].file = Main)'
  <2>1. 1 \in 1..b
    BY <1>1
  <2> QED
    BY <1>3, <2>1 DEF StackInv
<1> QED
  BY <1>7, <1>8, <1>9, <1>10, <1>11 DEF StackInv

LEMMA StackInvInit == Init => StackInv
<1> SUFFICES ASSUME Init
             PROVE  StackInv
  OBVIOUS
<1>1. open = <<Enter(Main, FALSE)>> /\ included = {}
  BY DEF Init
<1>2. Len(open) = 1 /\ open[1] = Enter(Main, FALSE)
  BY <1>1
<1>3. /\ open[1].file = Main /\ open[1].line = 1
      /\ open[1].ifs = <<>> /\ open[1].once = FALSE
  <2> DEFINE e == Enter(Main, FALSE)
  <2>1. e.file = Main /\ e.line = 1 /\ e.ifs = <<>> /\ e.once = FALSE
    BY DEF Enter
  <2>2. open[1] = e
    BY <1>2
  <2> HIDE DEF e
  <2> QED
    BY <2>1, <2>2
<1>4. \A k \in 1..Len(open) : k = 1
  BY <1>2
<1>5. AsWalked(open[1])
  <2>1. source[Main] \in Seq(Line)
    BY PreprocessorAssumption DEF Init
  <2>2. Walk(Main)[0] = [ifs |-> <<>>, over |-> FALSE]
    BY <2>1, WalkOfShape DEF Walk
  <2>3. open[1].line - 1 = 0
    BY <1>3
  <2> QED
    BY <1>3, <2>2, <2>3, Zenon DEF AsWalked
<1>6. \A j, k \in 1..Len(open) : ~(j < k)
  BY <1>4
<1>7. \A k \in 1..Len(open) : ~(k < Len(open))
  BY <1>2
<1>8. Walking /\ Chained
  BY <1>4, <1>5, <1>7, Zenon DEF Walking, Chained
<1>9. Ordered /\ Unregistered
  BY <1>1, <1>6 DEF Ordered, Unregistered
<1> QED
  BY <1>3, <1>8, <1>9, Zenon DEF StackInv

LEMMA StackInvStep == PreprocessorInv /\ StackInv /\ [Next]_vars => StackInv'
<1> SUFFICES ASSUME PreprocessorInv, StackInv, [Next]_vars
             PROVE  StackInv'
  OBVIOUS
<1>1. CASE Stay
  <2>1. source' = source /\ macros' = macros /\ open' = open /\ included' = included
    BY <1>1 DEF Stay
  <2>2. /\ \A o : AsWalked(o)' <=> AsWalked(o)
        /\ \A o, m : OpenedBy(o, m)' <=> OpenedBy(o, m)
    BY <2>1, SameFiles
  <2>3. Walking' /\ Chained'
    BY <2>1, <2>2 DEF StackInv, Walking, Chained
  <2>4. Ordered' /\ Unregistered' /\ (open[1].file = Main)'
    BY <2>1 DEF StackInv, Ordered, Unregistered
  <2> QED
    BY <2>3, <2>4 DEF StackInv
<1>2. CASE \E n \in {1, 2}, i \in Seq(BOOLEAN) : Move(n, i)
  BY <1>2, MoveKeepsStack
<1>3. CASE \E once \in BOOLEAN : Push(once)
  BY <1>3, PushKeepsStack
<1>4. CASE Pop
  BY <1>4, PopKeepsStack
<1> QED
  BY <1>1, <1>2, <1>3, <1>4, StepShape

\* Files that include one another in circles are never left, and a file is not
\* registered before include_once has left it, whatever it opens on the way
\* (handle_include_once, handle_ifdef).
THEOREM StackInvHolds == Spec => []StackInv
  BY StackInvInit, StackInvStep, PreprocessorInvHolds, PTL DEF Spec

-----------------------------------------------------------------------------
(* Text that survives. *)

\* Nothing is ever taken out of the output.
LEMMA OutputGrows ==
  ASSUME PreprocessorInv, NEW n \in {1, 2}, NEW i \in Seq(BOOLEAN), Move(n, i)
  PROVE  /\ Len(dst) \in Nat /\ DOMAIN dst = 1..Len(dst)
         /\ \A k \in DOMAIN dst : k \in DOMAIN dst' /\ dst'[k] = dst[k]
         /\ Current.kind # "text" => dst' = dst
         /\ Current.kind = "text" => /\ DOMAIN dst' = 1..(Len(dst) + 1)
                                     /\ dst'[Len(dst) + 1] = <<Top.file, Top.line>>
<1>1. dst \in Seq(File \X Nat)
  BY DEF PreprocessorInv, TypeOK
<1>2. Len(dst) \in Nat /\ DOMAIN dst = 1..Len(dst)
  BY <1>1
<1>3. CASE Current.kind = "text"
  <2>1. dst' = Append(dst, <<Top.file, Top.line>>)
    BY <1>3 DEF Move
  <2>2. <<Top.file, Top.line>> \in File \X Nat
    BY TopIsFrame DEF Frame
  <2> DEFINE e == <<Top.file, Top.line>>
  <2>3. e \in File \X Nat /\ dst' = Append(dst, e)
    BY <2>1, <2>2
  <2> HIDE DEF e
  <2>4. /\ Len(dst') = Len(dst) + 1 /\ dst' \in Seq(File \X Nat)
        /\ dst'[Len(dst) + 1] = e
        /\ \A k \in 1..Len(dst) : dst'[k] = dst[k]
    BY <1>1, <2>3, AppendProperties
  <2>5. DOMAIN dst' = 1..(Len(dst) + 1)
    BY <2>4
  <2> QED
    BY <1>2, <1>3, <2>4, <2>5 DEF e
<1>4. CASE Current.kind # "text"
  BY <1>2, <1>4 DEF Move
<1> QED
  BY <1>3, <1>4

\* What lies above the cursor of the main file stays in the output.
LEMMA MoveSurvives ==
  ASSUME PreprocessorInv, StackInv, SurvivesInv,
         NEW n \in {1, 2}, NEW i \in Seq(BOOLEAN), Move(n, i)
  PROVE  SurvivesInv'
<1>1. /\ Len(open) \in Nat \ {0} /\ Len(open') = Len(open)
      /\ \A k \in 1..Len(open) : k # Len(open) => open'[k] = open[k]
      /\ open[Len(open)] = Top
      /\ open'[Len(open)].line = Top.line + n
  BY MoveShape
<1>2. /\ \A k \in DOMAIN dst : k \in DOMAIN dst' /\ dst'[k] = dst[k]
      /\ Len(dst) \in Nat
      /\ Current.kind = "text" => /\ DOMAIN dst' = 1..(Len(dst) + 1)
                                  /\ dst'[Len(dst) + 1] = <<Top.file, Top.line>>
  BY OutputGrows
<1>3. source' = source /\ status' # "done"
  BY DEF Move
<1>4. ASSUME NEW k \in DOMAIN Lines(Main), k < open'[1].line, Lines(Main)[k].kind = "text", Below(k)
      PROVE  \E m \in DOMAIN dst' : dst'[m] = <<Main, k>>
  <2>1. CASE k < open[1].line
    <3>1. PICK m \in DOMAIN dst : dst[m] = <<Main, k>>
      BY <1>4, <2>1 DEF SurvivesInv
    <3> QED
      BY <1>2, <3>1
  <2>2. CASE ~(k < open[1].line)
    <3>1. Len(open) = 1
      BY <1>1, <1>4, <2>2
    <3>2. Top = open[1] /\ Top.file = Main /\ open'[1].line = Top.line + n
      BY <1>1, <3>1 DEF StackInv
    <3>3. k \in Nat /\ Top.line \in Nat \ {0}
      <4>1. Main \in DOMAIN source
        BY <3>2, TopIsFrame
      <4>2. DOMAIN Lines(Main) = 1..Len(source[Main]) /\ Len(source[Main]) \in Nat
        BY <4>1, FileShape DEF PreprocessorInv
      <4> QED
        BY <4>2, TopIsFrame
    <3>4. k = Top.line \/ (n = 2 /\ k - 1 = Top.line /\ k > 1)
      BY <1>4, <2>2, <3>2, <3>3
    <3>5. Current = Lines(Main)[Top.line]
      BY <3>2 DEF Current, Lines
    <3>6. CASE k = Top.line
      <4>1. DOMAIN dst' = 1..(Len(dst) + 1) /\ dst'[Len(dst) + 1] = <<Main, k>>
        BY <1>2, <1>4, <3>2, <3>5, <3>6
      <4>2. Len(dst) + 1 \in DOMAIN dst'
        BY <1>2, <4>1
      <4> QED
        BY <4>1, <4>2
    <3>7. CASE n = 2 /\ k - 1 = Top.line /\ k > 1
      BY <1>4, <3>5, <3>7 DEF Move, Below
    <3> QED
      BY <3>4, <3>6, <3>7
  <2> QED
    BY <2>1, <2>2
<1>5. \A k : Below(k)' <=> Below(k)
  BY <1>3 DEF Below, Lines
<1> QED
  BY <1>3, <1>4, <1>5 DEF SurvivesInv, Lines

LEMMA SurvivesStep ==
  PreprocessorInv /\ StackInv /\ SurvivesInv /\ [Next]_vars => SurvivesInv'
<1> SUFFICES ASSUME PreprocessorInv, StackInv, SurvivesInv, [Next]_vars
             PROVE  SurvivesInv'
  OBVIOUS
<1>1. CASE Stay
  BY <1>1 DEF Stay, SurvivesInv, Lines, Below, AtEof, Top
<1>2. CASE \E n \in {1, 2}, i \in Seq(BOOLEAN) : Move(n, i)
  BY <1>2, MoveSurvives
<1>3. ASSUME NEW once \in BOOLEAN, Push(once)
      PROVE  SurvivesInv'
  <2>1. open'[1] = open[1]
    <3>1. Len(open) \in Nat \ {0} /\ \A k \in 1..Len(open) : open'[k] = open[k]
      BY <1>3, PushShape
    <3> QED
      BY <3>1
  <2>2. source' = source /\ dst' = dst /\ status' # "done"
    BY <1>3 DEF Push
  <2>3. \A k : Below(k)' <=> Below(k)
    BY <2>2 DEF Below, Lines
  <2> QED
    BY <2>1, <2>2, <2>3 DEF SurvivesInv, Lines
<1>4. CASE Pop
  <2> DEFINE b == Len(open) - 1
  <2>1. /\ b \in Nat \ {0} /\ Len(open) = b + 1
        /\ \A k \in 1..b : k # b => open'[k] = open[k]
        /\ open'[b].line = open[b].line + 1
    BY <1>4, PopShape
  <2> HIDE DEF b
  <2>2. source' = source /\ dst' = dst /\ status' # "done"
    BY <1>4 DEF Pop
  <2>3. \A k : Below(k)' <=> Below(k)
    BY <2>2 DEF Below, Lines
  <2>4. OpenedBy(open[1], open[1 + 1]) /\ 1 \in 1..Len(open)
    BY <2>1 DEF StackInv, Chained
  <2>5. open[1].line \in DOMAIN Lines(Main) /\ Lines(Main)[open[1].line].kind # "text"
    BY <2>4 DEF OpenedBy, OnDirective, StackInv
  <2>6. \A k \in DOMAIN Lines(Main) : k \in Nat
    <3>1. Main \in DOMAIN source
      BY <2>4, OpenShape DEF StackInv
    <3> QED
      BY <3>1, FileShape DEF PreprocessorInv
  <2>7. \A k \in DOMAIN Lines(Main) :
          k < open'[1].line => k < open[1].line \/ k = open[1].line
    BY <2>1, <2>5, <2>6
  <2> QED
    BY <2>2, <2>3, <2>5, <2>7 DEF SurvivesInv, Lines
<1> QED
  BY <1>1, <1>2, <1>3, <1>4, StepShape

LEMMA SurvivesInit == Init => SurvivesInv
<1> SUFFICES ASSUME Init
             PROVE  SurvivesInv
  OBVIOUS
<1>1. open[1] = Enter(Main, FALSE) /\ open[1].line = 1
  <2>1. open[1] = Enter(Main, FALSE)
    BY DEF Init
  <2> QED
    BY <2>1 DEF Enter
<1>2. \A k \in DOMAIN Lines(Main) : ~(k < 1)
  <2>1. source[Main] \in Seq(Line)
    BY PreprocessorAssumption DEF Init
  <2> QED
    BY <2>1 DEF Lines
<1> QED
  BY <1>1, <1>2 DEF Init, SurvivesInv

\* How often a line is in the output.
LEMMA CopiesShape ==
  ASSUME PreprocessorInv, NEW f, NEW i
  PROVE  /\ (\E k \in DOMAIN dst : dst[k] = <<f, i>>) => Copies(f, i) >= 1
         /\ (\A j, k \in DOMAIN dst : dst[j] = <<f, i>> /\ dst[k] = <<f, i>> => j = k)
              => Copies(f, i) <= 1
<1> DEFINE S == {k \in DOMAIN dst : dst[k] = <<f, i>>}
<1>1. dst \in Seq(File \X Nat)
  BY DEF PreprocessorInv, TypeOK
<1>2. Len(dst) \in Nat /\ DOMAIN dst = 1..Len(dst)
  BY <1>1
<1>3. IsFiniteSet(1..Len(dst))
  BY <1>2, FS_Interval
<1>4. IsFiniteSet(S) /\ S \subseteq 1..Len(dst)
  <2>1. S \subseteq 1..Len(dst)
    BY <1>2
  <2> HIDE DEF S
  <2> QED
    BY <1>3, <2>1, FS_Subset
<1>5. Copies(f, i) = Cardinality(S)
  BY DEF Copies
<1>6. (\E k \in DOMAIN dst : dst[k] = <<f, i>>) => S # {}
  OBVIOUS
<1>7. (\A j, k \in DOMAIN dst : dst[j] = <<f, i>> /\ dst[k] = <<f, i>> => j = k)
        => S = {} \/ \E x : S = {x}
  <2> SUFFICES ASSUME \A j, k \in S : j = k, NEW x \in S
               PROVE  S = {x}
    OBVIOUS
  <2> HIDE DEF S
  <2> QED
    OBVIOUS
<1> HIDE DEF S
<1>8. Cardinality(S) \in Nat /\ (Cardinality(S) = 0 <=> S = {})
  BY <1>4, FS_CardinalityType, FS_EmptySet
<1>9. \A x : S = {x} => Cardinality(S) = 1
  BY FS_Singleton
<1> QED
  BY <1>5, <1>6, <1>7, <1>8, <1>9

\* Text of the source file that is not directly below an #<endif is in the
\* output when the expansion is done, whatever is included around it
\* (handle_preprocessor, handle_ifdef).
THEOREM TextReachesTheOutput == Spec => []TextSurvives
<1>1. PreprocessorInv /\ StackInv /\ SurvivesInv => TextSurvives
  <2> SUFFICES ASSUME PreprocessorInv, StackInv, SurvivesInv, status = "done",
                      NEW i \in DOMAIN source[Main],
                      source[Main][i].kind = "text",
                      i > 1 => source[Main][i - 1].kind # "endif"
               PROVE  Copies(Main, i) >= 1
    BY DEF TextSurvives
  <2>1. Len(open) = 1 /\ Top.line > Len(source[Top.file]) /\ Top = open[1] /\ Top.file = Main
    BY DEF SurvivesInv, AtEof, Top, StackInv
  <2>2. i < open[1].line
    <3>1. Main \in DOMAIN source /\ Top.line \in Nat
      BY <2>1, TopIsFrame
    <3>2. DOMAIN source[Main] = 1..Len(source[Main]) /\ Len(source[Main]) \in Nat
      BY <3>1, FileShape DEF PreprocessorInv
    <3> QED
      BY <2>1, <3>1, <3>2
  <2>3. \E k \in DOMAIN dst : dst[k] = <<Main, i>>
    BY <2>2 DEF SurvivesInv, Below, Lines
  <2> QED
    BY <2>3, CopiesShape
<1>2. Init => SurvivesInv
  BY SurvivesInit
<1>3. PreprocessorInv /\ StackInv /\ SurvivesInv /\ [Next]_vars => SurvivesInv'
  BY SurvivesStep
<1> QED
  BY <1>1, <1>2, <1>3, PreprocessorInvHolds, StackInvHolds, PTL DEF Spec

-----------------------------------------------------------------------------
(* Regular sources. *)

\* A line of a regular file that is not skipped: the code and the reader agree
\* on the conditionals below it.
LEMMA GoAgrees ==
  ASSUME NEW p \in Seq(BOOLEAN), NEW l, NEW defined, NEW n \in {1, 2}, NEW i,
         Go([ifs |-> p, over |-> FALSE], l, defined) = [ifs |-> i, over |-> n = 2],
         Len(Around(p, l, defined)) <= 1
  PROVE  i = Around(p, l, defined)
<1> DEFINE w == [ifs |-> p, over |-> FALSE]
<1>1. w.ifs = p /\ w.over = FALSE
  OBVIOUS
<1>2. Go(w, l, defined).ifs = i
  <2>1. [ifs |-> i, over |-> n = 2].ifs = i
    OBVIOUS
  <2> QED
    BY <2>1
<1> HIDE DEF w
<1>3. CASE l.kind = "ifdef"
  <2>1. Around(p, l, defined) = Append(p, l.macro \in defined)
    BY <1>3, Zenon DEF Around
  <2>2. p = <<>>
    <3>1. (l.macro \in defined) \in BOOLEAN
      OBVIOUS
    <3>2. Len(Around(p, l, defined)) = Len(p) + 1
      BY <2>1, <3>1, AppendProperties
    <3> QED
      BY <3>2
  <2>3. Go(w, l, defined) = [ifs |-> Append(p, l.macro \in defined), over |-> FALSE]
    BY <1>1, <1>3, <2>2, Zenon DEF Go, Expanding
  <2> QED
    BY <1>2, <2>1, <2>3
<1>4. CASE l.kind = "else" /\ p # <<>>
  <2>1. Around(p, l, defined) = Append(Front(p), ~p[Len(p)])
    BY <1>4, Zenon DEF Around
  <2>2. Go(w, l, defined) = [ifs |-> Append(Front(p), ~p[Len(p)]), over |-> FALSE]
    BY <1>1, <1>4, Zenon DEF Go
  <2> QED
    BY <1>2, <2>1, <2>2
<1>5. CASE l.kind = "endif" /\ p # <<>>
  <2>1. Around(p, l, defined) = Front(p)
    BY <1>5, Zenon DEF Around
  <2>2. Go(w, l, defined) = [ifs |-> Front(p), over |-> TRUE]
    BY <1>1, <1>5, Zenon DEF Go
  <2> QED
    BY <1>2, <2>1, <2>2
<1>6. CASE l.kind # "ifdef" /\ ~(l.kind = "else" /\ p # <<>>) /\ ~(l.kind = "endif" /\ p # <<>>)
  <2>1. Around(p, l, defined) = p
    BY <1>6, Zenon DEF Around
  <2>2. Go(w, l, defined) = w
    BY <1>1, <1>6, Zenon DEF Go
  <2> QED
    BY <1>1, <1>2, <2>1, <2>2
<1> QED
  BY <1>3, <1>4, <1>5, <1>6

\* The branches around a line of a file that is open.
LEMMA NestingGoesOn ==
  ASSUME PreprocessorInv, NEW f \in DOMAIN source, NEW l \in DOMAIN Lines(f)
  PROVE  /\ l \in Nat \ {0} /\ Len(Lines(f)) \in Nat /\ DOMAIN Lines(f) = 1..Len(Lines(f))
         /\ Branches(f)[l - 1] \in Seq(BOOLEAN)
         /\ Branches(f)[l] \in Seq(BOOLEAN)
         /\ Branches(f)[l] = Around(Branches(f)[l - 1], Lines(f)[l], macros)
         /\ l + 1 \in DOMAIN Lines(f) =>
              Branches(f)[l + 1] = Around(Branches(f)[l], Lines(f)[l + 1], macros)
<1> DEFINE ls == source[f]
<1>1. ls \in Seq(Line) /\ Lines(f) = ls /\ Len(ls) \in Nat /\ DOMAIN ls = 1..Len(ls)
  BY FileShape DEF PreprocessorInv
<1>2. Branches(f) = BranchesOf(ls, macros)
  BY DEF Branches
<1> HIDE DEF ls
<1>3. /\ \A i \in 1..Len(ls) : Branches(f)[i] = Around(Branches(f)[i - 1], ls[i], macros)
      /\ \A i \in 0..Len(ls) : Branches(f)[i] \in Seq(BOOLEAN)
  BY <1>1, <1>2, BranchesOfShape
<1>4. l \in 1..Len(ls) /\ l \in Nat \ {0} /\ l - 1 \in 0..Len(ls) /\ l \in 0..Len(ls)
  BY <1>1
<1>5. l + 1 \in DOMAIN ls => Branches(f)[l + 1] = Around(Branches(f)[l], ls[l + 1], macros)
  <2>1. (l + 1) - 1 = l
    BY <1>4
  <2> QED
    BY <1>1, <1>3, <2>1
<1> QED
  BY <1>1, <1>3, <1>4, <1>5

LEMMA MoveNests ==
  ASSUME PreprocessorInv, RegularInv, Regular,
         NEW n \in {1, 2}, NEW i \in Seq(BOOLEAN), Move(n, i)
  PROVE  \A k \in 1..Len(open') : AsNested(open'[k])
<1> DEFINE f == Top.file
           l == Top.line
           ls == Lines(f)
           p == Branches(f)[l - 1]
<1>1. /\ Len(open) \in Nat \ {0} /\ Len(open') = Len(open)
      /\ \A k \in 1..Len(open) : k # Len(open) => open'[k] = open[k]
      /\ open[Len(open)] = Top
      /\ open'[Len(open)].file = f
      /\ open'[Len(open)].line = l + n
      /\ open'[Len(open)].ifs = i
  BY MoveShape
<1>2. f \in DOMAIN source /\ l \in DOMAIN ls /\ Current = ls[l] /\ ls = source[f]
  BY TopIsFrame DEF Move, Current, Lines
<1>3. /\ l \in Nat \ {0} /\ Len(ls) \in Nat /\ DOMAIN ls = 1..Len(ls)
      /\ p \in Seq(BOOLEAN)
      /\ Branches(f)[l] \in Seq(BOOLEAN)
      /\ Branches(f)[l] = Around(p, ls[l], macros)
      /\ l + 1 \in DOMAIN ls => Branches(f)[l + 1] = Around(Branches(f)[l], ls[l + 1], macros)
  BY <1>2, NestingGoesOn
<1>4. Top.ifs = p
  <2>1. AsNested(Top)
    BY <1>1 DEF RegularInv
  <2> QED
    BY <1>2, <1>3, <2>1 DEF AsNested
<1>5. Len(Branches(f)[l]) <= 1
  BY <1>2 DEF Regular
<1>6. Go([ifs |-> p, over |-> FALSE], ls[l], macros) = [ifs |-> i, over |-> n = 2]
  BY <1>2, <1>4 DEF Move
<1>7. i = Branches(f)[l]
  <2> HIDE DEF f, l, ls, p
  <2> QED
    BY <1>3, <1>5, <1>6, GoAgrees
<1>8. AsNested(open'[Len(open)])
  <2>1. CASE n = 1
    <3>1. (l + n) - 1 = l
      BY <1>3, <2>1
    <3> QED
      BY <1>1, <1>7, <3>1 DEF AsNested
  <2>2. CASE n = 2
    <3>1. (l + n) - 1 = l + 1
      BY <1>3, <2>2
    <3>2. l + n <= Len(ls) => l + 1 \in DOMAIN ls
      BY <1>3, <2>2
    <3>3. l + 1 \in DOMAIN ls => Branches(f)[l + 1] = Branches(f)[l]
      <4>1. SUFFICES ASSUME l + 1 \in DOMAIN ls
                     PROVE  Branches(f)[l + 1] = Branches(f)[l]
        OBVIOUS
      <4>2. ls[l].kind = "endif"
        BY <1>2, <2>2 DEF Move
      <4>3. l + 1 > 1 /\ (l + 1) - 1 = l
        BY <1>3
      <4>4. ls[l + 1].kind = "text"
        <5> HIDE DEF f, l
        <5> QED
          BY <1>2, <4>1, <4>2, <4>3 DEF Regular, ls
      <4>5. Around(Branches(f)[l], ls[l + 1], macros) = Branches(f)[l]
        <5> HIDE DEF f, l, ls
        <5>1. ls[l + 1].kind # "ifdef" /\ ls[l + 1].kind # "else" /\ ls[l + 1].kind # "endif"
          BY <4>4
        <5> QED
          BY <5>1, Zenon DEF Around
      <4> QED
        BY <1>3, <4>1, <4>5
    <3>4. l + n <= Len(ls) => i = Branches(f)[(l + n) - 1]
      BY <1>7, <3>1, <3>2, <3>3
    <3> QED
      BY <1>1, <3>4 DEF AsNested
  <2> QED
    BY <2>1, <2>2
<1>9. \A k \in 1..Len(open) : k # Len(open) => AsNested(open'[k])
  BY <1>1 DEF RegularInv
<1> QED
  BY <1>1, <1>8, <1>9

LEMMA RegularStep ==
  PreprocessorInv /\ StackInv /\ RegularInv /\ [Next]_vars => RegularInv'
<1> SUFFICES ASSUME PreprocessorInv, StackInv, RegularInv, [Next]_vars, Regular'
             PROVE  (\A k \in 1..Len(open) : AsNested(open[k]))'
  BY DEF RegularInv
<1>1. source' = source /\ macros' = macros
  BY StepShape DEF Stay, Move, Push, Pop
<1>2. /\ \A o : AsNested(o)' <=> AsNested(o)
      /\ Regular
  BY <1>1, SameFiles
<1>3. \A k \in 1..Len(open) : AsNested(open[k])
  BY <1>2 DEF RegularInv
<1> SUFFICES \A k \in 1..Len(open') : AsNested(open'[k])
  BY <1>2
<1>4. CASE Stay
  BY <1>3, <1>4 DEF Stay
<1>5. CASE \E n \in {1, 2}, i \in Seq(BOOLEAN) : Move(n, i)
  BY <1>2, <1>5, MoveNests
<1>6. ASSUME NEW once \in BOOLEAN, Push(once)
      PROVE  \A k \in 1..Len(open') : AsNested(open'[k])
  <2> DEFINE new == Enter(Current.file, once)
  <2>1. /\ Len(open) \in Nat \ {0} /\ Len(open') = Len(open) + 1
        /\ \A k \in 1..Len(open) : open'[k] = open[k]
        /\ open'[Len(open) + 1] = new
    BY <1>6, PushShape
  <2>2. new.file = Current.file /\ new.line = 1 /\ new.ifs = <<>>
    BY DEF Enter
  <2> HIDE DEF new
  <2>3. AsNested(new)
    <3>1. Current.file \in DOMAIN source
      BY <1>6 DEF Push
    <3>2. source[Current.file] \in Seq(Line)
      BY <3>1, FileShape DEF PreprocessorInv
    <3>3. Branches(Current.file)[0] = <<>>
      BY <3>2, BranchesOfShape DEF Branches
    <3>4. new.line - 1 = 0
      BY <2>2
    <3> QED
      BY <2>2, <3>3, <3>4, Zenon DEF AsNested
  <2>4. \A k \in 1..Len(open') : k = Len(open) + 1 \/ k \in 1..Len(open)
    BY <2>1
  <2> QED
    BY <1>3, <2>1, <2>3, <2>4
<1>7. CASE Pop
  <2> DEFINE b == Len(open) - 1
  <2>1. /\ b \in Nat \ {0} /\ Len(open) = b + 1 /\ Len(open') = b
        /\ \A k \in 1..b : k # b => open'[k] = open[k]
        /\ open'[b].file = open[b].file
        /\ open'[b].line = open[b].line + 1
        /\ open'[b].ifs = open[b].ifs
    BY <1>7, PopShape
  <2> HIDE DEF b
  <2>2. b \in 1..Len(open) /\ b < Len(open) /\ \A k \in 1..b : k \in 1..Len(open)
    BY <2>1
  <2>3. AsNested(open'[b])
    <3> DEFINE f == open[b].file
               l == open[b].line
    <3>1. l \in DOMAIN Lines(f) /\ Lines(f)[l].kind \in {"include", "include_once"} /\ f \in DOMAIN source
      BY <2>2, OpenShape DEF StackInv, Chained, OpenedBy, OnDirective
    <3>2. /\ l \in Nat \ {0} /\ Len(Lines(f)) \in Nat /\ DOMAIN Lines(f) = 1..Len(Lines(f))
          /\ Branches(f)[l] = Around(Branches(f)[l - 1], Lines(f)[l], macros)
      BY <3>1, NestingGoesOn
    <3>3. open[b].ifs = Branches(f)[l - 1]
      <4>1. AsNested(open[b])
        BY <1>3, <2>2
      <4>2. l <= Len(Lines(f))
        BY <3>1, <3>2
      <4> QED
        BY <4>1, <4>2 DEF AsNested
    <3>4. Around(Branches(f)[l - 1], Lines(f)[l], macros) = Branches(f)[l - 1]
      <4> HIDE DEF f, l
      <4>1. /\ Lines(f)[l].kind # "ifdef"
            /\ Lines(f)[l].kind # "else"
            /\ Lines(f)[l].kind # "endif"
        BY <3>1
      <4> QED
        BY <4>1, Zenon DEF Around
    <3>5. (l + 1) - 1 = l
      BY <3>2
    <3> QED
      BY <2>1, <3>2, <3>3, <3>4, <3>5 DEF AsNested
  <2>4. \A k \in 1..b : k # b => AsNested(open'[k])
    BY <1>3, <2>1, <2>2
  <2> QED
    BY <2>1, <2>3, <2>4
<1> QED
  BY <1>4, <1>5, <1>6, <1>7, StepShape

LEMMA RegularInit == Init => RegularInv
<1> SUFFICES ASSUME Init
             PROVE  \A k \in 1..Len(open) : AsNested(open[k])
  BY DEF RegularInv
<1>1. Len(open) = 1 /\ open[1] = Enter(Main, FALSE)
  BY DEF Init
<1> DEFINE e == Enter(Main, FALSE)
<1>2. e.file = Main /\ e.line = 1 /\ e.ifs = <<>>
  BY DEF Enter
<1> HIDE DEF e
<1>3. Branches(Main)[0] = <<>>
  <2>1. source[Main] \in Seq(Line)
    BY PreprocessorAssumption DEF Init
  <2> QED
    BY <2>1, BranchesOfShape DEF Branches
<1>4. AsNested(e)
  <2>1. e.line - 1 = 0
    BY <1>2
  <2> QED
    BY <1>2, <1>3, <2>1, Zenon DEF AsNested
<1>5. open[1] = e /\ \A k \in 1..Len(open) : k = 1
  BY <1>1 DEF e
<1> QED
  BY <1>4, <1>5

\* In sources without conditionals in one another, a file is only included from
\* branches that are taken (handle_ifdef, handle_include).
THEOREM IncludesAreRegular == Spec => []RegularIncludes
<1>1. PreprocessorInv /\ StackInv /\ RegularInv => RegularIncludes
  <2> SUFFICES ASSUME PreprocessorInv, StackInv, RegularInv, Regular,
                      NEW k \in DOMAIN open, k < Len(open),
                      NEW j \in DOMAIN Branches(open[k].file)[open[k].line]
               PROVE  Branches(open[k].file)[open[k].line][j]
    BY DEF RegularIncludes, Active
  <2> DEFINE f == open[k].file
             l == open[k].line
             p == Branches(f)[l]
  <2>1. k \in 1..Len(open)
    <3>1. open \in Seq(Frame)
      BY DEF PreprocessorInv, TypeOK
    <3> QED
      BY <3>1
  <2>2. /\ l \in DOMAIN Lines(f) /\ f \in DOMAIN source
        /\ Lines(f)[l].kind \in {"include", "include_once"}
        /\ Expanding(open[k])
    BY <2>1, OpenShape DEF StackInv, Chained, OpenedBy, OnDirective
  <2>3. /\ l \in Nat \ {0} /\ Len(Lines(f)) \in Nat /\ DOMAIN Lines(f) = 1..Len(Lines(f))
        /\ p \in Seq(BOOLEAN) /\ p = Around(Branches(f)[l - 1], Lines(f)[l], macros)
    BY <2>2, NestingGoesOn
  <2>4. Branches(f)[l - 1] = open[k].ifs
    <3>1. AsNested(open[k])
      BY <2>1 DEF RegularInv
    <3>2. l <= Len(Lines(f))
      BY <2>2, <2>3
    <3> QED
      BY <3>1, <3>2 DEF AsNested
  <2>5. p = open[k].ifs
    <3>1. /\ Lines(f)[l].kind # "ifdef"
          /\ Lines(f)[l].kind # "else"
          /\ Lines(f)[l].kind # "endif"
      BY <2>2
    <3>2. Around(Branches(f)[l - 1], Lines(f)[l], macros) = Branches(f)[l - 1]
      <4> HIDE DEF f, l
      <4> QED
        BY <3>1, Zenon DEF Around
    <3> QED
      BY <2>3, <2>4, <3>2
  <2>6. Len(p) <= 1
    BY <2>2 DEF Regular, Lines
  <2>7. p # <<>> => p[Len(p)]
    BY <2>2, <2>5 DEF Expanding
  <2>8. j \in DOMAIN p
    OBVIOUS
  <2> HIDE DEF p
  <2>9. j = Len(p) /\ p # <<>>
    BY <2>3, <2>6, <2>8
  <2>10. p[j]
    BY <2>7, <2>9
  <2> QED
    BY <2>10 DEF p
<1>2. Init => RegularInv
  BY RegularInit
<1>3. PreprocessorInv /\ StackInv /\ RegularInv /\ [Next]_vars => RegularInv'
  BY RegularStep
<1> QED
  BY <1>1, <1>2, <1>3, PreprocessorInvHolds, StackInvHolds, PTL DEF Spec

-----------------------------------------------------------------------------
(* Files that are included once. *)

LEMMA MoveKeepsClaims ==
  ASSUME PreprocessorInv, NEW n \in {1, 2}, NEW i \in Seq(BOOLEAN), Move(n, i),
         NEW f, Claims(f)
  PROVE  Claims(f)'
<1> DEFINE L == Len(open)
           N == Len(dst)
<1>1. /\ L \in Nat \ {0} /\ Len(open') = L
      /\ \A k \in 1..L : k # L => open'[k] = open[k]
      /\ open[L] = Top
      /\ open'[L].file = Top.file
      /\ open'[L].line = Top.line + n
  BY MoveShape
<1>2. /\ N \in Nat /\ DOMAIN dst = 1..N
      /\ \A k \in DOMAIN dst : k \in DOMAIN dst' /\ dst'[k] = dst[k]
      /\ Current.kind # "text" => dst' = dst
      /\ Current.kind = "text" => /\ DOMAIN dst' = 1..(N + 1)
                                  /\ dst'[N + 1] = <<Top.file, Top.line>>
  BY OutputGrows
<1>3. \A k \in DOMAIN dst : dst[k][2] \in Nat
  <2>1. dst \in Seq(File \X Nat)
    BY DEF PreprocessorInv, TypeOK
  <2> QED
    BY <2>1
<1> HIDE DEF L, N
<1>4. \A k \in 1..L : open'[k].file = open[k].file /\ open[k].line \in Nat /\ open'[k].line \in Nat
                        /\ open[k].line <= open'[k].line
  <2>1. \A k \in 1..L : open[k].line \in Nat
    BY OpenShape DEF L
  <2>2. Top.line \in Nat
    BY TopIsFrame
  <2> QED
    BY <1>1, <2>1, <2>2
<1>5. included' = included
  BY DEF Move
<1>6. (Lone(f)' <=> Lone(f)) /\ (Closed(f)' <=> Closed(f))
  BY <1>1, <1>4 DEF Lone, Closed, L
<1>7. CASE dst' = dst
  <2>1. Single(f)' <=> Single(f)
    BY <1>7 DEF Single
  <2>2. ASSUME Lone(f), NEW j \in 1..L, NEW k \in DOMAIN dst, open'[j].file = f, dst[k][1] = f
        PROVE  dst[k][2] < open'[j].line
    <3>1. dst[k][2] < open[j].line
      BY <1>4, <2>2 DEF Claims, L
    <3> QED
      BY <1>3, <1>4, <3>1
  <2> QED
    BY <1>1, <1>5, <1>6, <1>7, <2>1, <2>2 DEF Claims
<1>8. CASE Current.kind = "text" /\ Top.file # f
  <2>1. \A k \in DOMAIN dst' : dst'[k][1] = f => k \in DOMAIN dst /\ dst'[k] = dst[k]
    <3>1. \A k \in 1..(N + 1) : k = N + 1 \/ k \in 1..N
      BY <1>2
    <3>2. dst'[N + 1][1] = Top.file
      BY <1>2, <1>8
    <3> QED
      BY <1>2, <1>8, <3>1, <3>2
  <2>2. Single(f) => Single(f)'
    BY <2>1 DEF Single
  <2>3. ASSUME Lone(f), NEW j \in 1..L, NEW k \in DOMAIN dst', open'[j].file = f, dst'[k][1] = f
        PROVE  dst'[k][2] < open'[j].line
    <3>1. k \in DOMAIN dst /\ dst'[k] = dst[k]
      BY <2>1, <2>3
    <3>2. dst[k][2] < open[j].line
      BY <1>4, <2>3, <3>1 DEF Claims, L
    <3> QED
      BY <1>3, <1>4, <3>1, <3>2
  <2> QED
    BY <1>1, <1>5, <1>6, <2>1, <2>2, <2>3 DEF Claims
<1>9. CASE Current.kind = "text" /\ Top.file = f
  <2>1. ~Closed(f)' /\ L \in 1..L
    BY <1>1, <1>6, <1>9 DEF Closed, L
  <2>2. SUFFICES ASSUME Lone(f)
                 PROVE  /\ Single(f)'
                        /\ \A j \in 1..L, k \in DOMAIN dst' :
                             open'[j].file = f /\ dst'[k][1] = f => dst'[k][2] < open'[j].line
    BY <1>1, <1>6, <2>1 DEF Claims
  <2>3. \A k \in DOMAIN dst : dst[k][1] = f => dst[k][2] < Top.line
    BY <1>1, <1>9, <2>1, <2>2 DEF Claims, L
  <2>4. /\ \A k \in DOMAIN dst' : k = N + 1 \/ (k \in DOMAIN dst /\ dst'[k] = dst[k])
        /\ dst'[N + 1][1] = f /\ dst'[N + 1][2] = Top.line /\ Top.line \in Nat
        /\ N + 1 \notin DOMAIN dst
    <3>1. \A k \in 1..(N + 1) : k = N + 1 \/ k \in 1..N
      BY <1>2
    <3> QED
      BY <1>2, <1>9, <3>1, TopIsFrame
  <2>5. Single(f)'
    <3>1. \A k \in DOMAIN dst : dst[k][1] = f => dst[k] # dst'[N + 1]
      BY <1>3, <2>3, <2>4
    <3>2. Single(f)
      BY <2>2 DEF Claims
    <3> QED
      BY <2>4, <3>1, <3>2 DEF Single
  <2>6. ASSUME NEW j \in 1..L, NEW k \in DOMAIN dst', open'[j].file = f, dst'[k][1] = f
        PROVE  dst'[k][2] < open'[j].line
    <3>1. j = L
      BY <1>1, <1>4, <1>9, <2>1, <2>2, <2>6 DEF Lone, L
    <3>2. Current.kind # "endif"
      BY <1>9
    <3>3. n = 1
      BY <3>2 DEF Move
    <3>4. dst'[k][2] < Top.line \/ dst'[k][2] = Top.line
      BY <2>3, <2>4, <2>6
    <3>5. open'[j].line = Top.line + 1 /\ dst'[k][2] \in Nat
      BY <1>1, <1>3, <2>4, <3>1, <3>3
    <3> QED
      BY <2>4, <3>4, <3>5
  <2> QED
    BY <2>5, <2>6
<1> QED
  BY <1>2, <1>7, <1>8, <1>9

LEMMA PushKeepsClaims ==
  ASSUME PreprocessorInv, NEW once \in BOOLEAN, Push(once),
         NEW f, ~Included(f), Claims(f)
  PROVE  Claims(f)'
<1> DEFINE new == Enter(Current.file, once)
           L == Len(open)
<1>1. /\ L \in Nat \ {0} /\ Len(open') = L + 1
      /\ \A k \in 1..L : open'[k] = open[k]
      /\ open'[L + 1] = new
  BY PushShape
<1>2. new.file = Current.file
  BY DEF Enter
<1> HIDE DEF new, L
<1>3. dst' = dst /\ included' = included
  BY DEF Push
<1>4. (\A k \in 1..Len(open') : k = L + 1 \/ k \in 1..L) /\ \A k \in 1..L : k \in 1..Len(open')
  BY <1>1
<1>5. (Lone(f)' => Lone(f)) /\ (Closed(f)' => Closed(f))
  BY <1>1, <1>4 DEF Lone, Closed, L
<1>6. Single(f)' <=> Single(f)
  BY <1>3 DEF Single
<1>7. Lone(f)' => Single(f)'
  BY <1>5, <1>6 DEF Claims
<1>8. (Closed(f) /\ f \notin included) => \A k \in DOMAIN dst : dst[k][1] # f
  BY DEF Claims
<1>9. CASE f # Current.file
  <2>1. ASSUME Lone(f)', NEW j \in 1..Len(open'), NEW k \in DOMAIN dst, open'[j].file = f, dst[k][1] = f
        PROVE  dst[k][2] < open'[j].line
    <3>1. j \in 1..L /\ open'[j] = open[j]
      BY <1>1, <1>2, <1>4, <1>9, <2>1
    <3> QED
      BY <1>5, <2>1, <3>1 DEF Claims, L
  <2> QED
    BY <1>3, <1>5, <1>7, <1>8, <2>1 DEF Claims
<1>10. CASE f = Current.file
  <2>1. once
    <3>1. SUFFICES ASSUME ~once
                   PROVE  FALSE
      OBVIOUS
    <3>2. Current = [kind |-> "include", file |-> f]
      BY <1>10, <3>1 DEF Push
    <3>3. Top.file \in DOMAIN source /\ Top.line \in DOMAIN source[Top.file]
      BY TopIsFrame DEF Push, OnDirective, Lines
    <3> QED
      BY <3>2, <3>3 DEF Included, Current
  <2>2. f \notin included
    BY <1>10, <2>1 DEF Push
  <2>3. Lone(f)' => Closed(f)
    <3>1. L + 1 \in 1..Len(open') /\ \A k \in 1..L : k # L + 1
      BY <1>1
    <3> QED
      BY <1>1, <1>2, <1>4, <1>10, <3>1 DEF Lone, Closed, L
  <2>4. Lone(f)' => \A k \in DOMAIN dst : dst[k][1] # f
    BY <1>8, <2>2, <2>3
  <2> QED
    BY <1>3, <1>5, <1>7, <1>8, <2>4 DEF Claims
<1> QED
  BY <1>9, <1>10

LEMMA PopKeepsClaims ==
  ASSUME PreprocessorInv, StackInv, Pop, NEW f, ~Included(f), Claims(f)
  PROVE  Claims(f)'
<1> DEFINE b == Len(open) - 1
<1>1. /\ Len(open) \in Nat /\ b \in Nat \ {0} /\ Len(open) = b + 1 /\ Len(open') = b
      /\ \A k \in 1..b : k # b => open'[k] = open[k]
      /\ open[Len(open)] = Top
      /\ open'[b].file = open[b].file
      /\ open'[b].line = open[b].line + 1
  BY PopShape
<1> HIDE DEF b
<1>2. /\ \A k \in 1..b : k \in 1..Len(open) /\ k < Len(open) /\ k # Len(open)
      /\ \A k \in 1..Len(open) : k = Len(open) \/ k \in 1..b
      /\ b \in 1..b
  BY <1>1
<1>3. \A k \in 1..b : open'[k].file = open[k].file /\ open[k].line \in Nat /\ open'[k].line \in Nat
                        /\ open[k].line <= open'[k].line
  <2>1. \A k \in 1..b : open[k].line \in Nat
    BY <1>2, OpenShape
  <2> QED
    BY <1>1, <1>2, <2>1
<1>4. \A k \in 1..b : open[k].file # Top.file
  BY <1>2, NoTwinAtEof DEF Pop
<1>5. dst' = dst
  BY DEF Pop
<1>6. Single(f)' <=> Single(f)
  BY <1>5 DEF Single
<1>7. \A k \in DOMAIN dst : dst[k][2] \in Nat
  <2>1. dst \in Seq(File \X Nat)
    BY DEF PreprocessorInv, TypeOK
  <2> QED
    BY <2>1
<1>8. CASE f = Top.file
  <2>1. Lone(f) /\ Closed(f)'
    BY <1>1, <1>2, <1>3, <1>4, <1>8 DEF Lone, Closed
  <2>2. Top.once
    <3>1. OpenedBy(open[b], Top)
      BY <1>1, <1>2 DEF StackInv, Chained
    <3>2. Top.once \in BOOLEAN
      BY TopIsFrame DEF Frame
    <3>3. open[b].file \in DOMAIN source /\ open[b].line \in DOMAIN source[open[b].file]
      BY <1>2, <3>1, OpenShape DEF OpenedBy, OnDirective, Lines
    <3>4. ~Top.once => source[open[b].file][open[b].line] = [kind |-> "include", file |-> f]
      BY <1>8, <3>1 DEF OpenedBy, Lines
    <3> QED
      BY <3>2, <3>3, <3>4 DEF Included
  <2>3. f \in included'
    BY <1>8, <2>2 DEF Pop
  <2>4. Single(f)'
    BY <1>6, <2>1 DEF Claims
  <2>5. \A j \in 1..Len(open') : open'[j].file # f
    BY <2>1 DEF Closed
  <2> QED
    BY <2>3, <2>4, <2>5 DEF Claims
<1>9. CASE f # Top.file
  <2>1. (Lone(f)' => Lone(f)) /\ (Closed(f)' => Closed(f))
    BY <1>1, <1>2, <1>3, <1>9 DEF Lone, Closed
  <2>2. f \notin included' => f \notin included
    BY DEF Pop
  <2>3. ASSUME Lone(f)', NEW j \in 1..b, NEW k \in DOMAIN dst, open'[j].file = f, dst[k][1] = f
        PROVE  dst[k][2] < open'[j].line
    <3>1. dst[k][2] < open[j].line
      BY <1>2, <1>3, <2>1, <2>3 DEF Claims
    <3> QED
      BY <1>3, <1>7, <3>1
  <2>4. Lone(f)' => Single(f)'
    BY <1>6, <2>1 DEF Claims
  <2>5. (Closed(f) /\ f \notin included) => \A k \in DOMAIN dst : dst[k][1] # f
    BY DEF Claims
  <2> QED
    BY <1>1, <1>5, <2>1, <2>2, <2>3, <2>4, <2>5 DEF Claims
<1> QED
  BY <1>8, <1>9

LEMMA OnceStep ==
  PreprocessorInv /\ StackInv /\ OnceInv /\ [Next]_vars => OnceInv'
<1> SUFFICES ASSUME PreprocessorInv, StackInv, OnceInv, [Next]_vars
             PROVE  OnceInv'
  OBVIOUS
<1>1. source' = source
  BY StepShape DEF Stay, Move, Push, Pop
<1>2. \A f : Included(f)' <=> Included(f)
  BY <1>1 DEF Included
<1>3. SUFFICES ASSUME NEW f \in DOMAIN source, ~Included(f), Claims(f)
               PROVE  Claims(f)'
  BY <1>1, <1>2 DEF OnceInv
<1>4. CASE Stay
  <2>1. open' = open /\ dst' = dst /\ included' = included
    BY <1>4 DEF Stay
  <2> QED
    BY <1>3, <2>1 DEF Claims, Lone, Closed, Single
<1>5. CASE \E n \in {1, 2}, i \in Seq(BOOLEAN) : Move(n, i)
  BY <1>3, <1>5, MoveKeepsClaims
<1>6. CASE \E once \in BOOLEAN : Push(once)
  BY <1>3, <1>6, PushKeepsClaims
<1>7. CASE Pop
  BY <1>3, <1>7, PopKeepsClaims
<1> QED
  BY <1>4, <1>5, <1>6, <1>7, StepShape

\* A file that only include_once names is in the output at most once, however
\* often and by whatever detours it is reached (handle_include_once).
THEOREM IncludedOnceIsOnce == Spec => []AtMostOnce
<1>1. PreprocessorInv /\ SurvivesInv /\ OnceInv => AtMostOnce
  <2> SUFFICES ASSUME PreprocessorInv, SurvivesInv, OnceInv, status = "done",
                      NEW f \in DOMAIN source, ~Included(f), NEW i \in DOMAIN source[f]
               PROVE  Copies(f, i) <= 1
    BY DEF AtMostOnce
  <2>1. Len(open) = 1
    BY DEF SurvivesInv
  <2>2. Lone(f)
    <3>1. \A k \in 1..Len(open) : k = 1
      BY <2>1
    <3> QED
      BY <3>1, Zenon DEF Lone
  <2>3. Single(f)
    BY <2>2 DEF OnceInv, Claims
  <2>4. \A j, k \in DOMAIN dst : dst[j] = <<f, i>> /\ dst[k] = <<f, i>> => j = k
    BY <2>3 DEF Single
  <2> QED
    BY <2>4, CopiesShape
<1>2. Init => OnceInv
  <2> SUFFICES ASSUME Init, NEW f
               PROVE  Claims(f)
    BY DEF OnceInv
  <2>1. dst = <<>>
    BY DEF Init
  <2>2. \A k \in DOMAIN dst : FALSE
    BY <2>1
  <2> QED
    BY <2>2, Zenon DEF Claims, Single
<1>3. PreprocessorInv /\ StackInv /\ OnceInv /\ [Next]_vars => OnceInv'
  BY OnceStep
<1>4. Init => SurvivesInv
  BY SurvivesInit
<1>5. PreprocessorInv /\ StackInv /\ SurvivesInv /\ [Next]_vars => SurvivesInv'
  BY SurvivesStep
<1> QED
  BY <1>1, <1>2, <1>3, <1>4, <1>5, PreprocessorInvHolds, StackInvHolds, PTL DEF Spec
=============================================================================
