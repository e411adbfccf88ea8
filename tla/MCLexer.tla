------------------------------- MODULE MCLexer -------------------------------
(***************************************************************************)
(* Small sources for Lexer: every text of a few characters over an alphabet *)
(* that exercises one group of scanning functions.                         *)
(***************************************************************************)
EXTENDS Lexer

Lines(alphabet, n) ==
  {Append(l, "nl") : l \in UNION {[1..k -> alphabet] : k \in 0..n}}

OneLine(L) == {<<l>> : l \in L}
TwoLines(L, M) == {<<l, m>> : l \in L, m \in M}

\* Strings and char literals, closed or not, with escapes.
StringAlphabet == {"\"", "\\", "'", "a"}
StringTexts ==
  {<<>>} \cup OneLine(Lines(StringAlphabet, 4))
         \cup TwoLines(Lines(StringAlphabet, 3), Lines(StringAlphabet, 1))
         \cup TwoLines({<<"'", "nl">>, <<"'", "\\", "nl">>},
                       Lines({"\"", "a", "sp"}, 5))

\* Comments, nested and unterminated ones too, next to operators.
CommentAlphabet == {"/", "*", "=", "a"}
CommentTexts == TwoLines(Lines(CommentAlphabet, 3), Lines(CommentAlphabet, 3))

\* Numbers, identifiers and what follows them.
NumberAlphabet == {"0", "1", "x", "a", ".", "_", "sp"}
NumberTexts == OneLine(Lines(NumberAlphabet, 5))

SmallTexts == StringTexts \cup CommentTexts \cup NumberTexts

Letters == {"a", "x"}
Digits == {"0", "1"}
HexDigits == {"0", "1", "a"}
Singles == {"/", "*", "=", "."}
Multis == {<<"/", "=">>, <<"*", "=">>, <<"=", "=">>}
Escapes == {"a", "\\", "'"}
=============================================================================
