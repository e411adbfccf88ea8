---------------------------- MODULE Preprocessor ----------------------------
(***************************************************************************)
(* preprocessor::Preprocessor::preprocess                                  *)
(* (src/src/acris/preprocessor/preprocessor.cpp): the expansion of the      *)
(* `#<` directives of a source file into one text.  The recursion of        *)
(* handle_preprocessor, include_file and handle_ifdef is the stack of open  *)
(* files, each with the `#<ifdef`s it is inside of.  A line is its          *)
(* directive, or plain text.                                               *)
(***************************************************************************)
EXTENDS Naturals, Sequences, FiniteSets, SequencesExt

CONSTANTS
  File,        \* the paths that occur
  Main,        \* the path of the source file
  Macro,       \* the names that are tested
  Sources,     \* file systems: functions from some of File to sequences of lines
  MaxNesting   \* bound: MAX_INCLUDE_NESTING, 255 in the code

Line == [kind : {"text", "else", "endif", "error", "malformed"}]
        \cup [kind : {"include", "include_once"}, file : File]
        \cup [kind : {"ifdef"}, macro : Macro]

ASSUME PreprocessorAssumption ==
  /\ MaxNesting \in Nat \ {0}
  /\ Main \in File
  /\ \A s \in Sources : /\ Main \in DOMAIN s
                        /\ DOMAIN s \subseteq File
                        /\ \A f \in DOMAIN s : s[f] \in Seq(Line) /\ s[f] # <<>>

VARIABLES
  source,    \* the file system
  macros,    \* m_mreg: the names that are defined
  open,      \* the files being expanded, outermost first
  included,  \* m_ireg: the files that include_once has finished
  dst,       \* the text produced: pairs of a file and the number of a line
  status     \* "expanding", "done", or how preprocess() was left

vars == <<source, macros, open, included, dst, status>>

\* An open file: the line under the cursor, the emit_branch of each #<ifdef it
\* is inside of, and whether include_once opened it.
Frame == [file : File, line : Nat, ifs : Seq(BOOLEAN), once : BOOLEAN]
Enter(f, o) == [file |-> f, line |-> 1, ifs |-> <<>>, once |-> o]

Init ==
  /\ source \in Sources
  /\ macros \in SUBSET Macro
  /\ open = <<Enter(Main, FALSE)>>
  /\ included = {}
  /\ dst = <<>>
  /\ status = "expanding"

-----------------------------------------------------------------------------
Top == open[Len(open)]
AtEof == Top.line > Len(source[Top.file])
Current == source[Top.file][Top.line]
InIf == Top.ifs # <<>>

\* Directives are expanded unless the #<ifdef around them is in the branch
\* that should not emit.
Expands == InIf => Top.ifs[Len(Top.ifs)]

At(K) == status = "expanding" /\ ~AtEof /\ Current.kind \in K

Fail(s) ==
  /\ status' = s
  /\ UNCHANGED <<source, macros, open, included, dst>>

\* The innermost file goes on n lines further down, inside the ifdefs i.
Advance(n, i) ==
  open' = [open EXCEPT ![Len(open)] = [Top EXCEPT !.line = @ + n, !.ifs = i]]

Skip ==
  /\ Advance(1, Top.ifs)
  /\ UNCHANGED <<source, macros, included, dst, status>>

\* Plain text is added to the output, in an #<ifdef whatever emit_branch says.
Text ==
  /\ At({"text"})
  /\ dst' = Append(dst, <<Top.file, Top.line>>)
  /\ Advance(1, Top.ifs)
  /\ UNCHANGED <<source, macros, included, status>>

\* handle_ifdef, up to its loop.
Ifdef ==
  /\ At({"ifdef"})
  /\ IF Expands
     THEN /\ Advance(1, Append(Top.ifs, Current.macro \in macros))
          /\ UNCHANGED <<source, macros, included, dst, status>>
     ELSE Skip

\* Mutant: the branch is turned, and the cursor stays on the #<else.
ElseStays ==
  /\ At({"else"})
  /\ IF InIf
     THEN /\ Advance(0, Append(Front(Top.ifs), ~Top.ifs[Len(Top.ifs)]))
          /\ UNCHANGED <<source, macros, included, dst, status>>
     ELSE Fail("preprocessor_error")

Else ==
  /\ At({"else"})
  /\ IF InIf
     THEN /\ Advance(1, Append(Front(Top.ifs), ~Top.ifs[Len(Top.ifs)]))
          /\ UNCHANGED <<source, macros, included, dst, status>>
     ELSE Fail("preprocessor_error")

\* Mutant: the loop of handle_ifdef steps once more, too.
EndifThree ==
  /\ At({"endif"})
  /\ IF InIf
     THEN /\ Advance(3, Front(Top.ifs))
          /\ UNCHANGED <<source, macros, included, dst, status>>
     ELSE Fail("preprocessor_error")

\* handle_ifdef steps over the #<endif and returns to a loop that steps over
\* the line under the cursor once more.
Endif ==
  /\ At({"endif"})
  /\ IF InIf
     THEN /\ Advance(2, Front(Top.ifs))
          /\ UNCHANGED <<source, macros, included, dst, status>>
     ELSE Fail("preprocessor_error")

\* Mutant: the nesting limit is off by one.
OpenOneMore(f, once) ==
  IF f \notin DOMAIN source THEN Fail("invalid_argument")
  ELSE IF Len(open) > MaxNesting THEN Fail("preprocessor_error")
  ELSE /\ open' = Append(open, Enter(f, once))
       /\ UNCHANGED <<source, macros, included, dst, status>>

\* include_file and the check at the start of handle_preprocessor: the nesting
\* count is the number of files open below the new one.
Open(f, once) ==
  IF f \notin DOMAIN source THEN Fail("invalid_argument")
  ELSE IF Len(open) >= MaxNesting THEN Fail("preprocessor_error")
  ELSE /\ open' = Append(open, Enter(f, once))
       /\ UNCHANGED <<source, macros, included, dst, status>>

\* Mutant: includes are expanded in every branch.
IncludeAlways == At({"include"}) /\ Open(Current.file, FALSE)

Include ==
  /\ At({"include"})
  /\ IF Expands THEN Open(Current.file, FALSE) ELSE Skip

\* Mutant: a file that is registered is not stepped past.
IncludeOnceStuck ==
  /\ At({"include_once"})
  /\ IF ~Expands THEN Skip
     ELSE IF Current.file \notin included THEN Open(Current.file, TRUE)
     ELSE UNCHANGED vars

IncludeOnce ==
  /\ At({"include_once"})
  /\ IF Expands /\ Current.file \notin included
     THEN Open(Current.file, TRUE)
     ELSE Skip

\* #<error, an unknown directive, or one whose argument cannot be read.
Error ==
  /\ At({"error"})
  /\ IF Expands THEN Fail("preprocessor_error") ELSE Skip

\* `#<` that no name follows.
Malformed == At({"malformed"}) /\ Fail("preprocessor_error")

\* Mutant: include_once registers nothing.
EofForgets ==
  /\ status = "expanding"
  /\ AtEof
  /\ IF InIf THEN Fail("preprocessor_error")
     ELSE IF Len(open) = 1 THEN Fail("done")
     ELSE /\ open' = [Front(open) EXCEPT ![Len(open) - 1].line = @ + 1]
          /\ UNCHANGED <<source, macros, included, dst, status>>

\* The end of a file: inside an #<ifdef it is an error; an included file
\* returns to the line after the directive, and is registered only now.
Eof ==
  /\ status = "expanding"
  /\ AtEof
  /\ IF InIf THEN Fail("preprocessor_error")
     ELSE IF Len(open) = 1 THEN Fail("done")
     ELSE LET below == Len(open) - 1
          IN  /\ open' = [Front(open) EXCEPT ![below].line = @ + 1]
              /\ included' = IF Top.once THEN included \cup {Top.file} ELSE included
              /\ UNCHANGED <<source, macros, dst, status>>

Next ==
  \/ Text \/ Ifdef \/ Else \/ Endif \/ Include \/ IncludeOnce
  \/ Error \/ Malformed \/ Eof

Spec == Init /\ [][Next]_vars

\* preprocess() is a plain loop: the program keeps running it.
FairSpec == Spec /\ WF_vars(Next)

-----------------------------------------------------------------------------
(* Properties. *)

TypeOK ==
  /\ macros \subseteq Macro
  /\ open \in Seq(Frame)
  /\ Len(open) \in 1..MaxNesting
  /\ included \subseteq File
  /\ dst \in Seq(File \X Nat)
  /\ status \in {"expanding", "done", "preprocessor_error", "invalid_argument"}

\* What a line says about the ones below it, by the usual reading of nested
\* conditionals, given the branch of each #<ifdef around it and the names that
\* are defined.
Around(p, l, defined) ==
  CASE l.kind = "ifdef" -> Append(p, l.macro \in defined)
    [] l.kind = "else" /\ p # <<>> -> Append(Front(p), ~p[Len(p)])
    [] l.kind = "endif" /\ p # <<>> -> Front(p)
    [] OTHER -> p

\* The branches around each of the lines ls.
BranchesOf(ls, defined) ==
  LET b[i \in 0..Len(ls)] == IF i = 0 THEN <<>> ELSE Around(b[i - 1], ls[i], defined)
  IN  b
Branches(f) == BranchesOf(source[f], macros)

\* Line i of file f lies in branches that are all taken.
Active(f, i) == \A j \in DOMAIN Branches(f)[i] : Branches(f)[i][j]

\* Sources in which no #<ifdef is inside another and no directive is directly
\* below an #<endif.
Regular ==
  \A f \in DOMAIN source : \A i \in DOMAIN source[f] :
    /\ Len(Branches(f)[i]) <= 1
    /\ i > 1 /\ source[f][i - 1].kind = "endif" => source[f][i].kind = "text"

\* In regular sources, files are only ever included from branches that are
\* taken.  (An #<ifdef inside a branch that is not is skipped, and its #<else
\* turns the branch around it.)
RegularIncludes ==
  Regular =>
    \A k \in DOMAIN open : k < Len(open) => Active(open[k].file, open[k].line)

\* "Will be excluded if not linking to libc." (README.md:45)
ExcludedBranchesSilent == \A k \in DOMAIN dst : Active(dst[k][1], dst[k][2])

\* Text outside of every #<ifdef reaches the output, once each time its file is
\* expanded, unless it is directly below an #<endif.
Copies(f, i) == Cardinality({k \in DOMAIN dst : dst[k] = <<f, i>>})
TextSurvives ==
  status = "done" =>
    \A i \in DOMAIN source[Main] :
      (/\ source[Main][i].kind = "text"
       /\ Branches(Main)[i] = <<>>
       /\ i > 1 => source[Main][i - 1].kind # "endif")
      => Copies(Main, i) >= 1

\* However often include_once names it, and by whatever detours, a file that no
\* plain #<include names contributes each of its lines at most once.
Included(f) == \E g \in DOMAIN source : \E i \in DOMAIN source[g] :
                 source[g][i] = [kind |-> "include", file |-> f]
AtMostOnce ==
  status = "done" =>
    \A f \in DOMAIN source : ~Included(f) =>
      \A i \in DOMAIN source[f] : Copies(f, i) <= 1

\* Expansion ends for every source, also when files include one another.
Terminates == <>(status # "expanding")
=============================================================================
