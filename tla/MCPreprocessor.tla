--------------------------- MODULE MCPreprocessor ---------------------------
(***************************************************************************)
(* Small file systems for Preprocessor: a source file and one or two        *)
(* libraries, with every short sequence of directives.                     *)
(***************************************************************************)
EXTENDS Preprocessor

T == [kind |-> "text"]
E == [kind |-> "else"]
X == [kind |-> "endif"]
Err == [kind |-> "error"]
Bad == [kind |-> "malformed"]
If(m) == [kind |-> "ifdef", macro |-> m]
Inc(f) == [kind |-> "include", file |-> f]
Once(f) == [kind |-> "include_once", file |-> f]

Files == {"main", "lib", "util", "missing"}
Macros == {"NO_LIBC"}

\* Non-empty files of at most n of the lines L.
Texts(L, n) == UNION {[1..k -> L] : k \in 1..n}

FileSystems(mains, libs) ==
  {[main |-> m, lib |-> l, util |-> <<Once("lib"), T>>] : m \in mains, l \in libs}

\* Conditionals around text, nested and badly closed ones too.
IfTexts == Texts({T, E, X, Err, If("NO_LIBC")}, 5) \cup {<<Bad>>}

\* Files that include one another, twice, in circles, or conditionally.
IncludeTexts ==
  Texts({T, X, If("NO_LIBC"), Inc("lib"), Once("util"), Once("missing")}, 3)
LibTexts == Texts({T, Once("main"), Once("util"), Inc("util")}, 2)

IfSources == FileSystems(IfTexts, {<<T>>})
IncludeSources == FileSystems(IncludeTexts, LibTexts)
SmallSources == IfSources \cup IncludeSources

\* A conditional with text in both of its branches.
GuardSources == FileSystems({<<If("NO_LIBC"), T, E, T, X>>}, {<<T>>})
=============================================================================
