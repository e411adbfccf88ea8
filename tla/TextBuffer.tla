----------------------------- MODULE TextBuffer -----------------------------
(***************************************************************************)
(* container::TextBuffer (src/src/acris/container/text_buffer.cpp): a       *)
(* vector of lines, each ending in a newline, and a cursor.  The operators  *)
(* take the lines and the cursor and return the cursor that the method of   *)
(* the same name leaves behind.  Lines and columns count from 0.            *)
(***************************************************************************)
EXTENDS Naturals, Sequences

\* What peek() returns when there is no next character.
NoChar == "eos"

At(l, c) == [line |-> l, col |-> c]

Eos(text, pos) == pos.line >= Len(text)

LineOf(text, pos) == text[pos.line + 1]

Character(text, pos) == LineOf(text, pos)[pos.col + 1]

AtLineEnd(text, pos) == pos.col + 1 >= Len(LineOf(text, pos))

NextLine(pos) == At(pos.line + 1, 0)

\* Mutant: next() notices the end of a line one character late.
NextPosLate(text, pos) ==
  IF pos.col >= Len(LineOf(text, pos))
  THEN NextLine(pos)
  ELSE At(pos.line, pos.col + 1)

NextPos(text, pos) ==
  IF AtLineEnd(text, pos) THEN NextLine(pos) ELSE At(pos.line, pos.col + 1)

\* prev() from the first column goes to the first column of the line above,
\* not to its last one.
PrevPos(pos) ==
  IF pos.col < 1 THEN At(pos.line - 1, 0) ELSE At(pos.line, pos.col - 1)

\* peek() is a next() and a prev(): its value, and the cursor it leaves, which
\* is not the one it found when that was the end of a line.
Peek(text, pos) ==
  LET n == NextPos(text, pos)
  IN  IF Eos(text, n) THEN NoChar ELSE Character(text, n)

AfterPeek(text, pos) == PrevPos(NextPos(text, pos))

\* p comes before q in the text.
Before(p, q) == p.line < q.line \/ (p.line = q.line /\ p.col < q.col)
=============================================================================
