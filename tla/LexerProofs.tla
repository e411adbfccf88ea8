---------------------------- MODULE LexerProofs ----------------------------
(***************************************************************************)
(* Proofs about Lexer, for every text and every set of characters: the      *)
(* cursor never leaves the text while a scanning function runs, and the     *)
(* tokens are where a reader would put them.                               *)
(***************************************************************************)
EXTENDS Lexer, SequenceTheorems, FiniteSetTheorems, StepwiseRecursion, TLAPS

\* The cursor is on a character.
OnText(p) == p \in Cursor /\ ~Eos(text, p) /\ p.col < Len(LineOf(text, p))

\* The scanning functions of tokens that are made of letters, digits and dots.
Words == {"identifier", "hex", "integer", "float"}

\* Where each scanning function may stand: what it has seen of the text since
\* it was called.
ScanInv ==
  /\ mode # "tokenize" => OnText(start)
  /\ mode \notin {"tokenize", "block_comment"} => OnText(pos)
  /\ mode \in Words => pos.line = start.line /\ start.col <= pos.col
  /\ mode = "identifier" => Char \in IdChar
  /\ mode = "integer" => Char \in Digit
  /\ mode = "float" => Char \in Digit \cup {"."}
  /\ mode = "string" => Character(text, start) = "\""
  /\ mode = "line_comment" =>
       /\ Character(text, start) = "/" /\ Peek(text, start) = "/"
       /\ pos.line = start.line /\ start.col + 2 <= pos.col
  /\ mode = "block_comment" =>
       /\ Character(text, start) = "/" /\ Peek(text, start) = "*"
       /\ ~Before(pos, Nexts(Nexts(start)))
       /\ \A p \in Positions :
            Before(Nexts(start), p) /\ Before(p, pos) => ~ClosesAt(p)

\* The structure of every reachable state.
LexerInv ==
  /\ text \in Texts
  /\ TypeOK
  /\ ScanInv
  /\ status = "done" => mode = "tokenize" /\ ~More

\* The part of the text that has been lexed ends here.
Frontier == IF mode = "tokenize" THEN pos ELSE start

\* What a reader is inside of before and after the character at p.
ReadBefore(p) == Quoted(LineOf(text, p))[p.col]
ReadAfter(p) == Quoted(LineOf(text, p))[p.col + 1]

\* Outside of a string literal and of a block comment the reader is outside of
\* a string, too; in a string literal the reader is inside of one that opened
\* where the literal did.
ReaderAgrees ==
  /\ mode \notin {"block_comment", "string"} /\ More => ReadBefore(pos) = "out"
  /\ mode = "string" =>
       /\ pos.line = start.line /\ start.col <= pos.col
       /\ ReadBefore(start) = "out"
       /\ ReadAfter(pos) = "in"
       /\ \A j \in start.col + 1 .. pos.col + 1 : Quoted(LineOf(text, start))[j] # "out"

\* The last token is on the line of the next, unless it ends a line.
LastLine ==
  tokens # <<>> =>
    LET s == tokens[Len(tokens)]
    IN  s.to.line = Frontier.line \/ s.type \in {"NEWLINE", "CHAR_LITERAL"}

\* Everything before the frontier has been lexed once, and nothing after it.
Tiled ==
  /\ \A k \in DOMAIN tokens : Before(tokens[k].to, Frontier)
  /\ \A p \in Positions : Before(p, Frontier) /\ Character(text, p) # "sp" =>
       \E k \in DOMAIN tokens : Within(p, tokens[k])
  /\ \A p \in Positions : \A j, k \in DOMAIN tokens :
       Within(p, tokens[j]) /\ Within(p, tokens[k]) => j = k

\* The reader agrees with the scanning functions on texts whose strings are
\* closed.
ReaderInv == StringsClosed => ReaderAgrees

-----------------------------------------------------------------------------
(* The text and its cursor.                                                *)

\* A text is a sequence of lines that end in their only line break.
LEMMA TextShape ==
  ASSUME text \in Texts
  PROVE  /\ text \in Seq(Seq(STRING))
         /\ Len(text) \in Nat
         /\ DOMAIN text = 1..Len(text)
         /\ \A i \in 1..Len(text) :
              /\ text[i] \in Seq(STRING)
              /\ Len(text[i]) \in Nat \ {0}
              /\ DOMAIN text[i] = 1..Len(text[i])
              /\ \A j \in 1..Len(text[i]) :
                   /\ text[i][j] # NoChar
                   /\ text[i][j] = "nl" <=> j = Len(text[i])
<1>1. text \in Seq(Seq(STRING))
  BY TextAssumption
<1>2. Len(text) \in Nat /\ DOMAIN text = 1..Len(text)
  BY <1>1
<1>3. ASSUME NEW i \in 1..Len(text)
      PROVE  /\ text[i] \in Seq(STRING)
             /\ Len(text[i]) \in Nat \ {0}
             /\ DOMAIN text[i] = 1..Len(text[i])
  <2>1. text[i] \in Seq(STRING)
    BY <1>1, ElementOfSeq
  <2>2. text[i] # <<>>
    BY <1>2, TextAssumption
  <2> QED
    BY <2>1, <2>2, EmptySeq
<1>4. ASSUME NEW i \in 1..Len(text), NEW j \in 1..Len(text[i])
      PROVE  /\ text[i][j] # NoChar
             /\ text[i][j] = "nl" <=> j = Len(text[i])
  BY <1>2, <1>3, TextAssumption
<1> QED
  BY <1>1, <1>2, <1>3, <1>4

\* A cursor on the text points at a character of a line.
LEMMA OnTextShape ==
  ASSUME text \in Texts, NEW p, OnText(p)
  PROVE  /\ p.line \in Nat /\ p.col \in Nat /\ p = At(p.line, p.col)
         /\ p.line + 1 \in 1..Len(text)
         /\ LineOf(text, p) = text[p.line + 1]
         /\ Len(LineOf(text, p)) \in Nat \ {0}
         /\ p.col + 1 \in 1..Len(LineOf(text, p))
         /\ Character(text, p) = LineOf(text, p)[p.col + 1]
         /\ Character(text, p) # NoChar
         /\ Character(text, p) = "nl" <=> AtLineEnd(text, p)
<1>1. p.line \in Nat /\ p.col \in Nat /\ p = At(p.line, p.col)
  BY DEF OnText, Cursor, At
<1>2. p.line + 1 \in 1..Len(text)
  BY <1>1, TextShape DEF OnText, Eos
<1>3. LineOf(text, p) = text[p.line + 1] /\ Len(LineOf(text, p)) \in Nat \ {0}
  BY <1>2, TextShape DEF LineOf
<1>4. p.col + 1 \in 1..Len(LineOf(text, p))
  BY <1>1, <1>3 DEF OnText
<1>5. Character(text, p) = text[p.line + 1][p.col + 1]
  BY <1>3 DEF Character
<1>6. Character(text, p) # NoChar /\ (Character(text, p) = "nl" <=> p.col + 1 = Len(text[p.line + 1]))
  BY <1>2, <1>3, <1>4, <1>5, TextShape
<1> QED
  BY <1>1, <1>2, <1>3, <1>4, <1>5, <1>6 DEF AtLineEnd

\* The first character of a line is on the text.
LEMMA LineStart ==
  ASSUME text \in Texts, NEW n \in Nat, n < Len(text)
  PROVE  OnText(At(n, 0))
<1>1. n + 1 \in 1..Len(text)
  BY TextShape
<1>2. Len(text[n + 1]) > 0
  BY <1>1, TextShape
<1> QED
  BY <1>1, <1>2, TextShape DEF OnText, At, Cursor, Eos, LineOf

\* next() goes to the next character, or off the text.
LEMMA NextShape ==
  ASSUME text \in Texts, NEW p, OnText(p)
  PROVE  /\ Nexts(p) \in Cursor
         /\ Eos(text, Nexts(p)) \/ OnText(Nexts(p))
         /\ Character(text, p) # "nl" => Nexts(p) = At(p.line, p.col + 1) /\ OnText(Nexts(p))
         /\ Character(text, p) = "nl" => Nexts(p) = At(p.line + 1, 0)
         /\ Peek(text, p) # NoChar =>
              OnText(Nexts(p)) /\ Peek(text, p) = Character(text, Nexts(p))
         /\ OnText(Nexts(p)) => Peek(text, p) = Character(text, Nexts(p))
<1>1. /\ p.line \in Nat /\ p.col \in Nat
      /\ p.line + 1 \in 1..Len(text) /\ LineOf(text, p) = text[p.line + 1]
      /\ Len(LineOf(text, p)) \in Nat \ {0}
      /\ Character(text, p) = "nl" <=> AtLineEnd(text, p)
      /\ p.col + 1 \in 1..Len(LineOf(text, p))
  BY OnTextShape
<1>2. Len(text) \in Nat
  BY TextShape
<1>3. CASE Character(text, p) = "nl"
  <2>1. Nexts(p) = At(p.line + 1, 0)
    BY <1>1, <1>3 DEF Nexts, NextPos, NextLine
  <2>2. Nexts(p) \in Cursor
    BY <1>1, <2>1 DEF At, Cursor
  <2>3. p.line + 1 < Len(text) => OnText(Nexts(p))
    BY <1>1, <2>1, LineStart
  <2>4. ~(p.line + 1 < Len(text)) => Eos(text, Nexts(p))
    BY <1>1, <1>2, <2>1 DEF Eos, At
  <2>5. OnText(Nexts(p)) => ~Eos(text, Nexts(p))
    BY DEF OnText
  <2>6. p.line + 1 < Len(text) \/ ~(p.line + 1 < Len(text))
    OBVIOUS
  <2> QED
    BY <1>3, <2>1, <2>2, <2>3, <2>4, <2>5, <2>6 DEF Peek, Nexts
<1>4. CASE Character(text, p) # "nl"
  <2>1. Nexts(p) = At(p.line, p.col + 1)
    BY <1>1, <1>4 DEF Nexts, NextPos
  <2>2. p.col + 1 < Len(LineOf(text, p))
    BY <1>1, <1>4 DEF AtLineEnd
  <2>3. LineOf(text, Nexts(p)) = LineOf(text, p)
    BY <2>1 DEF LineOf, At
  <2>4. OnText(Nexts(p)) /\ Nexts(p) \in Cursor /\ ~Eos(text, Nexts(p))
    BY <1>1, <1>2, <2>1, <2>2, <2>3 DEF OnText, At, Cursor, Eos
  <2> QED
    BY <1>4, <2>1, <2>4 DEF Peek, Nexts
<1> QED
  BY <1>3, <1>4

-----------------------------------------------------------------------------
(* The structure of the reachable states.                                  *)

\* The cursor of tokenize() is on a character, or behind the last one.
LEMMA MoreIsOnText ==
  ASSUME LexerInv, More
  PROVE  OnText(pos)
  BY DEF LexerInv, TypeOK, More, OnText

\* A step that moves the cursor to a place that is on the text or behind it
\* keeps the types.
LEMMA MoveTyped ==
  ASSUME LexerInv, NEW p \in Cursor, Eos(text, p) \/ OnText(p),
         pos' = p, text' = text, mode' \in Modes, start' \in Cursor,
         tokens' = tokens, status' = status
  PROVE  text' \in Texts /\ TypeOK'
  BY DEF LexerInv, TypeOK, OnText

\* Leaving tokenize() changes nothing else.
LEMMA FailKeeps ==
  ASSUME LexerInv, NEW s \in Statuses, Fail(s),
         s = "done" => mode = "tokenize" /\ ~More
  PROVE  LexerInv'
<1>1. text' = text /\ pos' = pos /\ mode' = mode /\ start' = start /\ tokens' = tokens
  BY DEF Fail
<1>2. TypeOK'
  BY <1>1 DEF LexerInv, TypeOK, Fail
<1>3. ScanInv'
  <2>1. Positions' = Positions
    BY <1>1 DEF Positions
  <2> QED
    BY <1>1, <2>1, Zenon DEF LexerInv, ScanInv, OnText, Char, ClosesAt, Nexts
<1>4. status' = "done" => mode' = "tokenize" /\ ~More'
  BY <1>1 DEF Fail, More
<1> QED
  BY <1>1, <1>2, <1>3, <1>4 DEF LexerInv

\* A token that ends on the text is added, and tokenize() goes on behind it.
LEMMA EmitAdds ==
  ASSUME LexerInv, NEW type \in Types, NEW p, OnText(p), Emit(type, p)
  PROVE  /\ text' = text /\ start' = start /\ status' = status
         /\ mode' = "tokenize" /\ pos' = Nexts(p)
         /\ tokens \in Seq([type : Types, from : Cursor, to : Cursor])
         /\ Len(tokens) \in Nat
         /\ Len(tokens') = Len(tokens) + 1
         /\ DOMAIN tokens = 1..Len(tokens)
         /\ DOMAIN tokens' = 1..Len(tokens) + 1
         /\ \A k \in 1..Len(tokens) : tokens'[k] = tokens[k]
         /\ tokens'[Len(tokens) + 1] = Token(type, Frontier, p)
         /\ tokens' \in Seq([type : Types, from : Cursor, to : Cursor])
<1> DEFINE t == Token(type, Frontier, p)
<1>1. t \in [type : Types, from : Cursor, to : Cursor]
  BY DEF LexerInv, TypeOK, Token, Frontier, OnText
<1>2. tokens \in Seq([type : Types, from : Cursor, to : Cursor])
  BY DEF LexerInv, TypeOK
<1>3. tokens' = Append(tokens, t)
  BY DEF Emit, Frontier
<1>4. /\ text' = text /\ start' = start /\ status' = status
      /\ mode' = "tokenize" /\ pos' = Nexts(p)
  BY DEF Emit
<1> HIDE DEF t
<1>5. /\ Len(tokens) \in Nat
      /\ Len(tokens') = Len(tokens) + 1
      /\ DOMAIN tokens = 1..Len(tokens)
      /\ \A k \in 1..Len(tokens) : tokens'[k] = tokens[k]
      /\ tokens'[Len(tokens) + 1] = t
      /\ tokens' \in Seq([type : Types, from : Cursor, to : Cursor])
  BY <1>1, <1>2, <1>3, AppendProperties
<1>6. DOMAIN tokens' = 1..Len(tokens) + 1
  BY <1>5
<1> QED
  BY <1>2, <1>4, <1>5, <1>6 DEF t

LEMMA EmitKeeps ==
  ASSUME LexerInv, NEW type \in Types, NEW p, OnText(p), Emit(type, p),
         status = "lexing"
  PROVE  LexerInv'
<1>1. /\ text' = text /\ start' = start /\ status' = "lexing"
      /\ mode' = "tokenize" /\ pos' = Nexts(p)
      /\ tokens' \in Seq([type : Types, from : Cursor, to : Cursor])
  BY EmitAdds
<1>2. Nexts(p) \in Cursor /\ (Eos(text, Nexts(p)) \/ OnText(Nexts(p)))
  BY NextShape DEF LexerInv
<1>3. TypeOK'
  BY <1>1, <1>2 DEF LexerInv, TypeOK, OnText, Modes
<1>4. ScanInv'
  BY <1>1 DEF ScanInv, Words
<1> QED
  BY <1>1, <1>3, <1>4 DEF LexerInv

\* No character of a word or a number is a line break.
LEMMA WordCharacters ==
  /\ NoChar \notin IdChar /\ NoChar \notin HexDigit /\ NoChar \notin Digit
  /\ "nl" \notin IdChar /\ "nl" \notin HexDigit /\ "nl" \notin Digit
  /\ "\"" \notin IdChar /\ "\"" \notin HexDigit /\ "\"" \notin Digit
  BY LexerAssumption DEF IdChar, Punctuation, NoChar

\* The positions of the properties are the places on the text.
LEMMA PositionsAreOnText ==
  ASSUME text \in Texts, NEW p
  PROVE  p \in Positions <=> OnText(p)
<1>1. ASSUME p \in Positions
      PROVE  OnText(p)
  <2>0. PICK i \in 1..Len(text) : \E j \in 1..Len(text[i]) : p = At(i - 1, j - 1)
    BY <1>1, TextShape DEF Positions
  <2>1. PICK j \in 1..Len(text[i]) : p = At(i - 1, j - 1)
    BY <2>0
  <2>2. Len(text) \in Nat /\ Len(text[i]) \in Nat
    BY TextShape
  <2>3. p.line + 1 = i /\ p.col + 1 = j /\ p.line \in Nat /\ p.col \in Nat
    BY <2>1, <2>2 DEF At
  <2>4. LineOf(text, p) = text[i]
    BY <2>3 DEF LineOf
  <2>5. p \in Cursor
    BY <2>1, <2>2 DEF At, Cursor
  <2> QED
    BY <2>1, <2>2, <2>3, <2>4, <2>5 DEF OnText, Eos
<1>2. ASSUME OnText(p)
      PROVE  p \in Positions
  <2>1. /\ p.line + 1 \in 1..Len(text) /\ p.col + 1 \in 1..Len(text[p.line + 1])
        /\ p = At(p.line, p.col) /\ p.line \in Nat /\ p.col \in Nat
    BY <1>2, OnTextShape
  <2>2. p = At((p.line + 1) - 1, (p.col + 1) - 1)
    BY <2>1
  <2>3. p \in {At((p.line + 1) - 1, j - 1) : j \in DOMAIN text[p.line + 1]}
    BY <2>1, <2>2, TextShape
  <2>4. p.line + 1 \in DOMAIN text
    BY <2>1, TextShape
  <2> QED
    BY <2>3, <2>4 DEF Positions
<1> QED
  BY <1>1, <1>2

\* The order of the places on the text, and that next() goes to the next one.
LEMMA BeforeNext ==
  ASSUME text \in Texts, NEW p, NEW q, OnText(p), OnText(q)
  PROVE  Before(q, Nexts(p)) <=> Before(q, p) \/ q = p
<1>1. /\ p.line \in Nat /\ p.col \in Nat /\ p = At(p.line, p.col)
      /\ q.line \in Nat /\ q.col \in Nat /\ q = At(q.line, q.col)
      /\ Character(text, p) = "nl" <=> AtLineEnd(text, p)
      /\ q.col + 1 \in 1..Len(LineOf(text, q))
      /\ p.col + 1 \in 1..Len(LineOf(text, p))
      /\ Len(LineOf(text, p)) \in Nat
  BY OnTextShape
<1>2. q = p <=> q.line = p.line /\ q.col = p.col
  BY <1>1
<1>3. p.line = q.line => LineOf(text, p) = LineOf(text, q)
  BY DEF LineOf
<1>4. CASE Character(text, p) = "nl"
  <2>1. Nexts(p).line = p.line + 1 /\ Nexts(p).col = 0
    BY <1>4, NextShape DEF At
  <2> QED
    BY <1>1, <1>2, <1>3, <1>4, <2>1 DEF Before, AtLineEnd
<1>5. CASE Character(text, p) # "nl"
  <2>1. Nexts(p).line = p.line /\ Nexts(p).col = p.col + 1
    BY <1>5, NextShape DEF At
  <2> QED
    BY <1>1, <1>2, <2>1 DEF Before
<1> QED
  BY <1>4, <1>5

LEMMA BeforeIsOrder ==
  /\ \A p, q \in Cursor : Before(p, q) => ~Before(q, p)
  /\ \A p, q \in Cursor : Before(p, q) \/ p = q \/ Before(q, p)
  /\ \A p, q, r \in Cursor : Before(p, q) /\ Before(q, r) => Before(p, r)
<1>1. \A p, q \in Cursor : p.line = q.line /\ p.col = q.col => p = q
  BY DEF Cursor
<1> QED
  BY <1>1 DEF Before, Cursor

\* peek() leaves the cursor where it was, but takes it from the end of a line
\* to the start of that line.
LEMMA AfterPeekShape ==
  ASSUME text \in Texts, NEW p, OnText(p)
  PROVE  /\ OnText(AfterPeek(text, p))
         /\ AfterPeek(text, p).line = p.line
         /\ Character(text, p) # "nl" => AfterPeek(text, p) = p
         /\ Peek(text, p) # NoChar => OnText(Nexts(AfterPeek(text, p)))
<1> DEFINE q == AfterPeek(text, p)
<1>1. /\ p.line \in Nat /\ p.col \in Nat /\ p = At(p.line, p.col)
      /\ p.line + 1 \in 1..Len(text)
  BY OnTextShape
<1>2. CASE Character(text, p) # "nl"
  <2>1. q = p
    BY <1>1, <1>2, NextShape DEF AfterPeek, PrevPos, At, Nexts
  <2> QED
    BY <1>2, <2>1, NextShape
<1>3. CASE Character(text, p) = "nl"
  <2>1. NextPos(text, p) = At(p.line + 1, 0)
    BY <1>3, NextShape DEF Nexts
  <2>2. q = At(p.line, 0)
    BY <1>1, <2>1 DEF AfterPeek, PrevPos, At
  <2>3. q.line = p.line /\ q.col = 0
    BY <2>2 DEF At
  <2>4. OnText(q)
    BY <1>1, <2>2, LineStart, TextShape
  <2>5. Character(text, q) = "nl" => q = p
    <3>1. LineOf(text, q) = LineOf(text, p)
      BY <2>3 DEF LineOf
    <3>2. AtLineEnd(text, p) /\ (Character(text, q) = "nl" => AtLineEnd(text, q))
      BY <1>3, <2>4, OnTextShape
    <3>3. p.col + 1 \in 1..Len(LineOf(text, p)) /\ Len(LineOf(text, p)) \in Nat
      BY OnTextShape
    <3>4. Character(text, q) = "nl" => p.col = 0
      BY <1>1, <2>3, <3>1, <3>2, <3>3 DEF AtLineEnd
    <3> QED
      BY <1>1, <2>2, <3>4
  <2> HIDE DEF q
  <2>6. Peek(text, p) # NoChar => OnText(Nexts(q))
    BY <2>4, <2>5, NextShape
  <2> QED
    BY <1>3, <2>3, <2>4, <2>6 DEF q
<1> QED
  BY <1>2, <1>3

-----------------------------------------------------------------------------
(* The steps keep the structure.                                           *)

\* tokenize() hands a comment over behind the two characters that open it.
LEMMA CommentKeeps ==
  ASSUME LexerInv, Comment
  PROVE  LexerInv'
<1> DEFINE p == Nexts(Nexts(pos))
<1>1. text \in Texts /\ OnText(pos) /\ pos \in Cursor
  BY MoreIsOnText DEF Comment, LexerInv, OnText
<1>2. /\ Char = "/" /\ Ahead \in {"/", "*"} /\ mode = "tokenize" /\ status = "lexing"
      /\ mode' = IF Ahead = "/" THEN "line_comment" ELSE "block_comment"
      /\ start' = pos /\ pos' = p
      /\ text' = text /\ tokens' = tokens /\ status' = status
  BY DEF Comment, IsComment, Call, In
<1>3. OnText(Nexts(pos)) /\ Nexts(pos) = At(pos.line, pos.col + 1)
  BY <1>1, <1>2, NextShape DEF Char
<1>4. Character(text, Nexts(pos)) \in {"/", "*"}
  BY <1>1, <1>2, <1>3, NextShape DEF Ahead
<1>5. OnText(p) /\ p = At(pos.line, pos.col + 2)
  <2>1. OnText(p) /\ p = At(Nexts(pos).line, Nexts(pos).col + 1)
    BY <1>1, <1>3, <1>4, NextShape
  <2>2. pos.col + 1 + 1 = pos.col + 2
    BY <1>1, OnTextShape
  <2> QED
    BY <1>3, <2>1, <2>2 DEF At
<1>6. p \in Cursor /\ p.line = pos.line /\ p.col = pos.col + 2 /\ pos.col \in Nat
  BY <1>1, <1>5, OnTextShape DEF OnText, At
<1>7. text' \in Texts /\ TypeOK'
  <2> HIDE DEF p
  <2> QED
    BY <1>1, <1>2, <1>5, <1>6, MoveTyped DEF Modes
<1>8. ~Before(p, p)
  BY <1>6, BeforeIsOrder
<1>9. ~\E r \in Positions : Before(Nexts(pos), r) /\ Before(r, p)
  <2>1. ASSUME NEW r \in Positions, Before(Nexts(pos), r), Before(r, p)
        PROVE  FALSE
    <3>1. OnText(r)
      BY <1>1, PositionsAreOnText
    <3>2. Before(r, Nexts(pos)) \/ r = Nexts(pos)
      BY <1>1, <1>3, <2>1, <3>1, BeforeNext
    <3>3. r \in Cursor /\ Nexts(pos) \in Cursor
      BY <1>3, <3>1 DEF OnText
    <3> QED
      BY <2>1, <3>2, <3>3, BeforeIsOrder
  <2> QED
    BY <2>1
<1>10. ScanInv'
  <2>1. /\ OnText(start)' /\ OnText(pos)'
        /\ Positions' = Positions
    BY <1>1, <1>2, <1>5 DEF OnText, Positions
  <2>2. /\ Character(text', start') = "/"
        /\ Peek(text', start') = IF mode' = "line_comment" THEN "/" ELSE "*"
        /\ pos'.line = start'.line /\ start'.col + 2 <= pos'.col
    BY <1>2, <1>6 DEF Char, Ahead
  <2>3. /\ ~Before(pos', Nexts(Nexts(start))')
        /\ \A r \in Positions : Before(Nexts(start)', r) /\ Before(r, pos') => FALSE
    <3> HIDE DEF p
    <3>1. Nexts(start)' = Nexts(pos) /\ Nexts(Nexts(start))' = p
      BY <1>2 DEF Nexts, p
    <3> QED
      BY <1>2, <1>8, <1>9, <3>1
  <2>4. mode' = "line_comment" \/ mode' = "block_comment"
    BY <1>2
  <2> HIDE DEF p
  <2> QED
    BY <2>1, <2>2, <2>3, <2>4 DEF ScanInv, Words
<1> QED
  BY <1>2, <1>7, <1>10 DEF LexerInv

\* Inside of tokenize().
LEMMA TokenizeKeeps ==
  ASSUME LexerInv,
         \/ Skip \/ Newline \/ Comment \/ Identifier \/ Numeric \/ CharLiteral
         \/ String \/ Symbol \/ Done
  PROVE  LexerInv'
<1>1. text \in Texts
  BY DEF LexerInv
<1>2. CASE Skip
  <2>1. OnText(pos)
    BY <1>2, MoreIsOnText DEF Skip
  <2>2. Nexts(pos) \in Cursor /\ (Eos(text, Nexts(pos)) \/ OnText(Nexts(pos)))
    BY <1>1, <2>1, NextShape
  <2>3. /\ mode' = "tokenize" /\ pos' = Nexts(pos) /\ status' = "lexing"
        /\ text' = text /\ start' = start /\ tokens' = tokens /\ status' = status
    BY <1>2 DEF Skip, In, Scan
  <2>4. text' \in Texts /\ TypeOK'
    BY <2>2, <2>3, MoveTyped DEF LexerInv, TypeOK, Modes
  <2>5. ScanInv'
    BY <2>3 DEF ScanInv, Words
  <2> QED
    BY <2>3, <2>4, <2>5 DEF LexerInv
<1>3. CASE Newline
  BY <1>3, MoreIsOnText, EmitKeeps DEF Newline, In, Types
<1>4. CASE Comment
  BY <1>4, CommentKeeps
<1>5. CASE Identifier \/ String \/ (Numeric /\ ~(Char = "0" /\ Ahead = "x"))
  <2>1. OnText(pos)
    BY <1>5, MoreIsOnText DEF Identifier, String, Numeric
  <2>2. /\ \/ mode' = "identifier" /\ Char \in Alpha
           \/ mode' = "integer" /\ Char \in Digit
           \/ mode' = "string" /\ Char = "\""
        /\ pos' = pos /\ start' = pos /\ status' = "lexing"
        /\ text' = text /\ tokens' = tokens /\ status' = status
    BY <1>5 DEF Identifier, String, Numeric, In, Call
  <2>3. text' \in Texts /\ TypeOK'
    BY <2>1, <2>2, MoveTyped DEF OnText, Modes
  <2>4. OnText(pos)' /\ OnText(start)'
    BY <2>1, <2>2 DEF OnText
  <2>5. pos'.line = start'.line /\ start'.col <= pos'.col
    <3>1. pos.col \in Nat
      BY <1>1, <2>1, OnTextShape
    <3>2. pos.line = pos.line /\ pos.col <= pos.col
      BY <3>1
    <3>3. pos' = pos /\ start' = pos
      BY <2>2
    <3> QED
      BY <3>2, <3>3, Zenon
  <2>6. ScanInv'
    BY <2>2, <2>4, <2>5 DEF ScanInv, Words, IdChar, Char
  <2> QED
    BY <2>2, <2>3, <2>6 DEF LexerInv
<1>6. CASE Numeric /\ Char = "0" /\ Ahead = "x"
  <2> DEFINE p == Nexts(Nexts(pos))
  <2>1. OnText(pos)
    BY <1>6, MoreIsOnText DEF Numeric
  <2>2. Nexts(pos) = At(pos.line, pos.col + 1) /\ OnText(Nexts(pos))
        /\ Character(text, Nexts(pos)) = "x"
    BY <1>1, <1>6, <2>1, NextShape DEF Char, Ahead
  <2>3. OnText(p) /\ p = At(pos.line, pos.col + 1 + 1)
    BY <1>1, <2>2, NextShape DEF At
  <2>4. /\ mode' = "hex" /\ pos' = p /\ start' = pos /\ status' = "lexing"
        /\ text' = text /\ tokens' = tokens /\ status' = status
    BY <1>6 DEF Numeric, In, Call
  <2>5. text' \in Texts /\ TypeOK'
    <3> HIDE DEF p
    <3> QED
      BY <2>1, <2>3, <2>4, MoveTyped DEF OnText, Modes
  <2>6. OnText(pos)' /\ OnText(start)'
    BY <2>1, <2>3, <2>4 DEF OnText
  <2>7. pos'.line = start'.line /\ start'.col <= pos'.col
    BY <1>1, <2>1, <2>3, <2>4, OnTextShape DEF At
  <2>8. ScanInv'
    BY <2>4, <2>6, <2>7 DEF ScanInv, Words
  <2> QED
    BY <2>4, <2>5, <2>8 DEF LexerInv
<1>7. CASE CharLiteral
  <2> DEFINE p1 == Nexts(pos)
             escaped == ~Eos(text, p1) /\ Character(text, p1) = "\\"
             p2 == IF escaped THEN Nexts(p1) ELSE p1
             p3 == Nexts(p2)
  <2>1. OnText(pos) /\ status = "lexing"
    BY <1>7, MoreIsOnText DEF CharLiteral, In
  <2>2. Eos(text, p1) \/ OnText(p1)
    BY <1>1, <2>1, NextShape
  <2>3. ~Eos(text, p1) => Eos(text, p2) \/ OnText(p2)
    BY <1>1, <2>2, NextShape
  <2>4. ~Eos(text, p1) /\ ~Eos(text, p2) => Eos(text, p3) \/ OnText(p3)
    BY <1>1, <2>3, NextShape
  <2>5. \/ Fail("out_of_range") \/ Fail("assert")
        \/ /\ ~Eos(text, p1) /\ ~Eos(text, p2) /\ ~Eos(text, p3)
           /\ Emit("CHAR_LITERAL", p3)
    BY <1>7 DEF CharLiteral
  <2> HIDE DEF p1, p2, p3, escaped
  <2> QED
    BY <2>1, <2>4, <2>5, EmitKeeps, FailKeeps DEF Types, Statuses
<1>8. CASE Symbol
  <2>1. OnText(pos) /\ status = "lexing"
    BY <1>8, MoreIsOnText DEF Symbol, In
  <2>2. <<Char, Ahead>> \in Multi => OnText(Nexts(pos))
    <3>1. <<Char, Ahead>> \in Multi => Ahead # NoChar
      BY LexerAssumption
    <3> QED
      BY <1>1, <2>1, <3>1, NextShape DEF Ahead
  <2>3. \/ <<Char, Ahead>> \in Multi /\ Emit("SYMBOL", Nexts(pos))
        \/ Emit("SYMBOL", pos)
        \/ Fail("syntax_error")
    BY <1>8 DEF Symbol
  <2> QED
    BY <2>1, <2>2, <2>3, EmitKeeps, FailKeeps DEF Types, Statuses
<1>9. CASE Done
  BY <1>9, FailKeeps DEF Done, In, Statuses
<1> QED
  BY <1>2, <1>3, <1>4, <1>5, <1>6, <1>7, <1>8, <1>9

\* A scanning function that looks at a character of its word and goes on to it.
LEMMA WordGoesOn ==
  ASSUME LexerInv, mode \in Words, Char # "nl", Ahead # NoChar,
         pos' = Nexts(pos), mode' \in Words, text' = text, start' = start,
         tokens' = tokens, status' = status, status = "lexing",
         mode' = "identifier" => Ahead \in IdChar,
         mode' = "integer" => Ahead \in Digit,
         mode' = "float" => Ahead \in Digit \cup {"."}
  PROVE  LexerInv'
<1>1. /\ text \in Texts /\ OnText(pos) /\ OnText(start)
      /\ pos.line = start.line /\ start.col <= pos.col
  BY DEF LexerInv, ScanInv, Words
<1>2. /\ Nexts(pos) = At(pos.line, pos.col + 1) /\ OnText(Nexts(pos))
      /\ Character(text, Nexts(pos)) = Ahead
  BY <1>1, NextShape DEF Char, Ahead
<1>3. text' \in Texts /\ TypeOK'
  BY <1>1, <1>2, MoveTyped DEF OnText, Modes, Words
<1>4. pos'.line = start'.line /\ start'.col <= pos'.col
  <2>1. pos.col \in Nat /\ start.col \in Nat
    BY <1>1, OnTextShape
  <2> QED
    BY <1>1, <1>2, <2>1 DEF At
<1>5. OnText(pos)' /\ OnText(start)' /\ Char' = Ahead
  BY <1>1, <1>2 DEF OnText, Char
<1>6. ScanInv'
  BY <1>4, <1>5 DEF ScanInv, Words
<1> QED
  BY <1>3, <1>6 DEF LexerInv

\* The scanning functions of identifiers and numbers.
LEMMA WordsKeep ==
  ASSUME LexerInv, ScanIdentifier \/ ScanHex \/ ScanInteger \/ ScanFloat
  PROVE  LexerInv'
<1>1. status = "lexing" /\ mode \in Words /\ OnText(pos)
  BY DEF ScanIdentifier, ScanHex, ScanInteger, ScanFloat, In, Words, LexerInv, ScanInv
<1>2. /\ NoChar \notin IdChar /\ NoChar \notin HexDigit /\ NoChar \notin Digit
      /\ "nl" \notin IdChar /\ "nl" \notin HexDigit /\ "nl" \notin Digit
      /\ NoChar # "."
  BY WordCharacters DEF NoChar
<1>3. CASE ScanIdentifier
  <2>1. Char \in IdChar /\ mode = "identifier"
    BY <1>3 DEF ScanIdentifier, In, LexerInv, ScanInv
  <2>2. CASE Ahead \in IdChar
    BY <1>1, <1>2, <1>3, <2>1, <2>2, WordGoesOn DEF ScanIdentifier, Scan
  <2>3. CASE Ahead \notin IdChar
    BY <1>1, <1>3, <2>3, EmitKeeps DEF ScanIdentifier, Types
  <2> QED
    BY <2>2, <2>3
<1>4. CASE ScanHex
  <2>1. mode = "hex"
    BY <1>4 DEF ScanHex, In
  <2>2. CASE Char \in HexDigit /\ Ahead \in HexDigit
    BY <1>1, <1>2, <1>4, <2>1, <2>2, WordGoesOn DEF ScanHex, Scan
  <2>3. CASE ~(Char \in HexDigit /\ Ahead \in HexDigit)
    BY <1>1, <1>4, <2>1, <2>3, EmitKeeps, FailKeeps DEF ScanHex, Types, Statuses
  <2> QED
    BY <2>2, <2>3
<1>5. CASE ScanInteger
  <2>1. Char \in Digit /\ mode = "integer"
    BY <1>5 DEF ScanInteger, In, LexerInv, ScanInv
  <2>2. CASE Ahead \in Digit
    BY <1>1, <1>2, <1>5, <2>1, <2>2, WordGoesOn DEF ScanInteger, Scan
  <2>3. CASE Ahead \notin Digit /\ Ahead = "."
    <3>1. /\ mode' = "float" /\ pos' = Nexts(pos)
          /\ UNCHANGED <<text, start, tokens, status>>
      BY <1>5, <2>3 DEF ScanInteger
    <3> QED
      BY <1>1, <1>2, <2>1, <2>3, <3>1, WordGoesOn DEF Words
  <2>4. CASE Ahead \notin Digit /\ Ahead # "."
    BY <1>1, <1>5, <2>1, <2>4, EmitKeeps, FailKeeps DEF ScanInteger, Types, Statuses
  <2> QED
    BY <2>2, <2>3, <2>4
<1>6. CASE ScanFloat
  <2>1. Char \in Digit \cup {"."} /\ mode = "float"
    BY <1>6 DEF ScanFloat, In, LexerInv, ScanInv
  <2>2. CASE Ahead \in Digit
    BY <1>1, <1>2, <1>6, <2>1, <2>2, WordGoesOn DEF ScanFloat, Scan
  <2>3. CASE Ahead \notin Digit
    BY <1>1, <1>6, <2>1, <2>3, EmitKeeps, FailKeeps DEF ScanFloat, Types, Statuses
  <2> QED
    BY <2>2, <2>3
<1> QED
  BY <1>3, <1>4, <1>5, <1>6

\* The end of a comment, at pos or behind the text.
LEMMA EndCommentKeeps ==
  ASSUME LexerInv, EndComment, status = "lexing"
  PROVE  LexerInv'
  BY MoreIsOnText, EmitKeeps, FailKeeps DEF EndComment, Types, Statuses

LEMMA CommentsKeep ==
  ASSUME LexerInv, LineComment \/ BlockComment
  PROVE  LexerInv'
<1>1. text \in Texts /\ status = "lexing"
  BY DEF LexerInv, LineComment, BlockComment, In
<1>2. CASE LineComment /\ More /\ Char # "nl"
  <2>1. /\ mode = "line_comment" /\ OnText(pos) /\ OnText(start)
        /\ Character(text, start) = "/" /\ Peek(text, start) = "/"
        /\ pos.line = start.line /\ start.col + 2 <= pos.col
    BY <1>2 DEF LineComment, In, LexerInv, ScanInv
  <2>2. /\ pos' = Nexts(pos) /\ mode' = mode
        /\ UNCHANGED <<text, start, tokens, status>>
    BY <1>2 DEF LineComment, Scan
  <2>3. Nexts(pos) = At(pos.line, pos.col + 1) /\ OnText(Nexts(pos))
    BY <1>1, <1>2, <2>1, NextShape DEF Char
  <2>4. text' \in Texts /\ TypeOK'
    BY <2>1, <2>2, <2>3, MoveTyped DEF OnText, Modes
  <2>5. pos'.line = start'.line /\ start'.col + 2 <= pos'.col
    <3>1. pos.col \in Nat /\ start.col \in Nat
      BY <1>1, <2>1, OnTextShape
    <3> QED
      BY <2>1, <2>2, <2>3, <3>1 DEF At
  <2>6. OnText(pos)' /\ OnText(start)'
    BY <2>1, <2>2, <2>3 DEF OnText
  <2>7. ScanInv'
    BY <2>1, <2>2, <2>5, <2>6 DEF ScanInv, Words
  <2> QED
    BY <1>1, <2>2, <2>4, <2>7 DEF LexerInv
<1>3. CASE LineComment /\ ~(More /\ Char # "nl")
  BY <1>1, <1>3, EndCommentKeeps DEF LineComment
<1>4. CASE BlockComment /\ ~More
  BY <1>1, <1>4, EndCommentKeeps DEF BlockComment
<1>5. CASE BlockComment /\ More /\ Char = "*" /\ Ahead = "/"
  <2>1. OnText(Nexts(pos))
    BY <1>1, <1>5, MoreIsOnText, NextShape DEF Ahead, NoChar
  <2> QED
    BY <1>1, <1>5, <2>1, EmitKeeps DEF BlockComment, Types
<1>6. CASE BlockComment /\ More /\ ~(Char = "*" /\ Ahead = "/")
  <2>1. OnText(pos) /\ mode = "block_comment"
    BY <1>6, MoreIsOnText DEF BlockComment, In
  <2>2. /\ OnText(start) /\ Character(text, start) = "/" /\ Peek(text, start) = "*"
        /\ ~Before(pos, Nexts(Nexts(start)))
        /\ \A p \in Positions : Before(Nexts(start), p) /\ Before(p, pos) => ~ClosesAt(p)
    BY <2>1 DEF LexerInv, ScanInv
  <2>3. /\ pos' = Nexts(pos) /\ mode' = mode
        /\ UNCHANGED <<text, start, tokens, status>>
    BY <1>6 DEF BlockComment, Scan
  <2>4. Nexts(pos) \in Cursor /\ (Eos(text, Nexts(pos)) \/ OnText(Nexts(pos)))
    BY <1>1, <2>1, NextShape
  <2>5. text' \in Texts /\ TypeOK'
    BY <2>1, <2>2, <2>3, <2>4, MoveTyped DEF OnText, Modes
  <2>6. OnText(start)' /\ Positions' = Positions
    BY <2>2, <2>3 DEF OnText, Positions
  <2>7. Nexts(Nexts(start)) \in Cursor
    <3>1. OnText(Nexts(start))
      BY <1>1, <2>2, NextShape DEF NoChar
    <3> QED
      BY <1>1, <3>1, NextShape
  <2>8. ~Before(Nexts(pos), Nexts(Nexts(start)))
    <3>1. Before(pos, Nexts(pos)) /\ pos \in Cursor
      BY <1>1, <2>1, BeforeNext DEF OnText
    <3> QED
      BY <2>2, <2>4, <2>7, <3>1, BeforeIsOrder
  <2>9. \A p \in Positions : Before(Nexts(start), p) /\ Before(p, Nexts(pos)) => ~ClosesAt(p)
    <3>1. ~ClosesAt(pos)
      BY <1>6 DEF ClosesAt, Char, Ahead
    <3>2. \A p \in Positions : Before(p, Nexts(pos)) => Before(p, pos) \/ p = pos
      BY <1>1, <2>1, PositionsAreOnText, BeforeNext
    <3> QED
      BY <2>2, <3>1, <3>2
  <2>10. /\ ~Before(pos, Nexts(Nexts(start)))'
         /\ \A p \in Positions' : (Before(Nexts(start), p) /\ Before(p, pos) => ~ClosesAt(p))'
    BY <2>3, <2>6, <2>8, <2>9 DEF Nexts, ClosesAt
  <2>11. ScanInv'
    BY <2>1, <2>2, <2>3, <2>6, <2>10 DEF ScanInv, Words
  <2> QED
    BY <1>1, <2>3, <2>5, <2>11 DEF LexerInv
<1> QED
  BY <1>2, <1>3, <1>4, <1>5, <1>6 DEF LineComment, BlockComment

LEMMA StringKeeps ==
  ASSUME LexerInv, ScanString
  PROVE  LexerInv'
<1> DEFINE p == AfterPeek(text, pos)
           q == Nexts(p)
           r == Nexts(q)
<1>1. /\ text \in Texts /\ status = "lexing" /\ mode = "string"
      /\ OnText(pos) /\ OnText(start) /\ Character(text, start) = "\""
  BY DEF LexerInv, ScanInv, ScanString, In
<1>2. OnText(p)
  BY <1>1, AfterPeekShape
<1>3. Ahead # NoChar => OnText(q)
  BY <1>1, AfterPeekShape DEF Ahead
<1>4. OnText(q) => Eos(text, r) \/ OnText(r)
  BY <1>1, NextShape
<1>5. \/ Fail("assert") \/ Fail("out_of_range")
      \/ Ahead # NoChar /\ Emit("STRING_LITERAL", q)
      \/ \E s \in {p, q, r} : OnText(s) /\ Scan(s)
  <2> HIDE DEF q
  <2> QED
    BY <1>2, <1>3, <1>4 DEF ScanString, q
<1> HIDE DEF p, q, r
<1>6. ASSUME NEW s \in {p, q, r}, OnText(s), Scan(s)
      PROVE  LexerInv'
  <2>1. /\ pos' = s /\ mode' = mode
        /\ UNCHANGED <<text, start, tokens, status>>
    BY <1>6 DEF Scan
  <2>2. text' \in Texts /\ TypeOK'
    BY <1>1, <1>6, <2>1, MoveTyped DEF OnText, Modes
  <2>3. OnText(pos)' /\ OnText(start)'
    BY <1>1, <1>6, <2>1 DEF OnText
  <2>4. ScanInv'
    BY <1>1, <2>1, <2>3 DEF ScanInv, Words
  <2> QED
    BY <1>1, <2>1, <2>2, <2>4 DEF LexerInv
<1> QED
  BY <1>1, <1>3, <1>5, <1>6, EmitKeeps, FailKeeps DEF Types, Statuses

LEMMA LexerInvInit == Init => LexerInv
<1> SUFFICES ASSUME Init
             PROVE  LexerInv
  OBVIOUS
<1>1. text \in Texts /\ pos = At(0, 0) /\ start = At(0, 0)
  BY DEF Init
<1>2. Eos(text, At(0, 0)) \/ OnText(At(0, 0))
  BY <1>1, LineStart, TextShape DEF Eos, At
<1>3. At(0, 0) \in Cursor
  BY DEF At, Cursor
<1>4. TypeOK
  BY <1>1, <1>2, <1>3 DEF Init, TypeOK, OnText, Modes, Statuses
<1>5. ScanInv
  BY DEF Init, ScanInv, Words
<1> QED
  BY <1>1, <1>4, <1>5 DEF Init, LexerInv

LEMMA LexerInvStep == LexerInv /\ [Next]_vars => LexerInv'
<1> SUFFICES ASSUME LexerInv, [Next]_vars
             PROVE  LexerInv'
  OBVIOUS
<1>1. CASE \/ Skip \/ Newline \/ Comment \/ Identifier \/ Numeric \/ CharLiteral
           \/ String \/ Symbol \/ Done
  BY <1>1, TokenizeKeeps
<1>2. CASE LineComment \/ BlockComment
  BY <1>2, CommentsKeep
<1>3. CASE ScanIdentifier \/ ScanHex \/ ScanInteger \/ ScanFloat
  BY <1>3, WordsKeep
<1>4. CASE ScanString
  BY <1>4, StringKeeps
<1>5. CASE UNCHANGED vars
  <2>1. Positions' = Positions
    BY <1>5 DEF Positions, vars
  <2>2. ScanInv'
    BY <1>5, <2>1, Zenon DEF vars, LexerInv, ScanInv, OnText, Char, ClosesAt, Nexts
  <2> QED
    BY <1>5, <2>2 DEF vars, LexerInv, TypeOK, More
<1> QED
  BY <1>1, <1>2, <1>3, <1>4, <1>5 DEF Next

\* Lexer::tokenize never looks at a place outside of its lines while it scans,
\* and each scanning function has seen what it takes for granted.
THEOREM LexerInvHolds == Spec => []LexerInv
  BY LexerInvInit, LexerInvStep, PTL DEF Spec

\* The cursor is on a character or behind the last line, in every state of
\* every text, also where peek() has taken it back or a literal has run over a
\* line end.
THEOREM CursorStaysOnText == Spec => []TypeOK
<1>1. LexerInv => TypeOK
  BY DEF LexerInv
<1> QED
  BY <1>1, LexerInvHolds, PTL

-----------------------------------------------------------------------------
(* Where tokens end.                                                       *)

\* What each function has seen when it adds a token that ends at p.
Ends(type, p) ==
  \/ type = "NEWLINE" /\ mode \in {"tokenize", "line_comment"} /\ p = pos /\ Char = "nl"
  \/ type = "NEWLINE" /\ mode = "block_comment" /\ p = Nexts(pos) /\ ClosesAt(pos)
  \/ type = "IDENTIFIER" /\ mode = "identifier" /\ p = pos /\ Ahead \notin IdChar
  \/ /\ type = "INTEGER_LITERAL" /\ mode \in {"hex", "integer"} /\ p = pos
     /\ Char \in HexDigit /\ Ahead \notin Digit
  \/ /\ type = "FLOAT_LITERAL" /\ mode = "float" /\ p = pos
     /\ Ahead \notin Digit \cup {"."}
  \/ type = "CHAR_LITERAL" /\ mode = "tokenize" /\ Char = "'" /\ Before(pos, p)
  \/ /\ type = "SYMBOL" /\ mode = "tokenize"
     /\ Char \notin Space \cup {"\""}
     /\ \/ p = pos /\ <<Char, Ahead>> \notin Multi
        \/ p = Nexts(pos) /\ <<Char, Ahead>> \in Multi
  \/ /\ type = "STRING_LITERAL" /\ mode = "string" /\ Ahead = "\""
     /\ p = Nexts(AfterPeek(text, pos))

\* A char literal ends behind the quote that opens it.
LEMMA CharLiteralEnds ==
  ASSUME LexerInv, CharLiteral, tokens' # tokens
  PROVE  \E p : OnText(p) /\ Emit("CHAR_LITERAL", p) /\ Before(pos, p)
<1> DEFINE p1 == Nexts(pos)
           escaped == ~Eos(text, p1) /\ Character(text, p1) = "\\"
           p2 == IF escaped THEN Nexts(p1) ELSE p1
           p3 == Nexts(p2)
<1>1. text \in Texts /\ OnText(pos)
  BY MoreIsOnText DEF LexerInv, CharLiteral
<1>2. /\ ~Eos(text, p1) /\ ~Eos(text, p2) /\ ~Eos(text, p3)
      /\ Emit("CHAR_LITERAL", p3)
  BY DEF CharLiteral, Fail
<1>3. OnText(p1) /\ Before(pos, p1)
  <2>1. OnText(p1)
    BY <1>1, <1>2, NextShape
  <2> QED
    BY <1>1, <2>1, BeforeNext
<1>4. OnText(p2) /\ (p2 = p1 \/ Before(p1, p2))
  <2>1. OnText(Nexts(p1)) => Before(p1, Nexts(p1))
    BY <1>1, <1>3, BeforeNext
  <2>2. Eos(text, Nexts(p1)) \/ OnText(Nexts(p1))
    BY <1>1, <1>3, NextShape
  <2> HIDE DEF p1, escaped
  <2> QED
    BY <1>2, <1>3, <2>1, <2>2
<1> HIDE DEF p2
<1>5. OnText(p3) /\ Before(p2, p3)
  <2>1. OnText(p3)
    BY <1>1, <1>2, <1>4, NextShape
  <2> QED
    BY <1>1, <1>4, <2>1, BeforeNext
<1> HIDE DEF p1, p3
<1>6. pos \in Cursor /\ p1 \in Cursor /\ p2 \in Cursor /\ p3 \in Cursor
  BY <1>1, <1>3, <1>4, <1>5 DEF OnText
<1>7. Before(pos, p3)
  <2>1. Before(pos, p2)
    BY <1>3, <1>4, <1>6, BeforeIsOrder
  <2> QED
    BY <1>5, <1>6, <2>1, BeforeIsOrder
<1> QED
  BY <1>2, <1>5, <1>7

\* Each step adds no token, or one that ends as its type says.
LEMMA StepsAdd ==
  ASSUME LexerInv, [Next]_vars
  PROVE  /\ text' = text
         /\ \/ tokens' = tokens
            \/ \E type \in Types : \E p :
                 /\ OnText(p) /\ Emit(type, p) /\ Ends(type, p)
                 /\ status = "lexing"
                 /\ mode = "tokenize" => OnText(pos)
<1>1. text \in Texts
  BY DEF LexerInv
<1>2. More => OnText(pos)
  BY MoreIsOnText
<1> DEFINE Adds(type) == \E p : /\ OnText(p) /\ Emit(type, p) /\ Ends(type, p)
                                /\ status = "lexing"
                                /\ mode = "tokenize" => OnText(pos)
<1>3. CASE \/ Skip \/ Comment \/ Identifier \/ Numeric \/ String \/ Done \/ UNCHANGED vars
  BY <1>3 DEF Skip, Comment, Identifier, Numeric, String, Done, Scan, Call, Fail, vars
<1>4. CASE Newline
  <2>1. Adds("NEWLINE") /\ text' = text
    BY <1>2, <1>4 DEF Newline, In, Ends, Emit
  <2> QED
    BY <2>1 DEF Types
<1>5. CASE CharLiteral
  <2>1. tokens' # tokens => Adds("CHAR_LITERAL")
    BY <1>2, <1>5, CharLiteralEnds DEF Ends, CharLiteral, In
  <2>2. text' = text
    BY <1>5 DEF CharLiteral, Emit, Fail
  <2> QED
    BY <2>1, <2>2 DEF Types
<1>6. CASE Symbol
  <2>1. <<Char, Ahead>> \in Multi => OnText(Nexts(pos))
    <3>1. <<Char, Ahead>> \in Multi => Ahead # NoChar
      BY LexerAssumption
    <3> QED
      BY <1>1, <1>2, <1>6, <3>1, NextShape DEF Ahead, Symbol
  <2>2. \/ <<Char, Ahead>> \in Multi /\ Emit("SYMBOL", Nexts(pos))
        \/ <<Char, Ahead>> \notin Multi /\ Emit("SYMBOL", pos)
        \/ Fail("syntax_error")
    BY <1>6 DEF Symbol
  <2>3. OnText(pos) /\ status = "lexing" /\ mode = "tokenize" /\ Char \notin Space \cup {"\""}
    BY <1>2, <1>6 DEF Symbol, In
  <2>4. (tokens' = tokens \/ Adds("SYMBOL")) /\ text' = text
    BY <2>1, <2>2, <2>3 DEF Ends, Fail, Emit
  <2> QED
    BY <2>4 DEF Types
<1>7. CASE LineComment \/ BlockComment
  <2>1. More /\ Char = "*" /\ Ahead = "/" => OnText(Nexts(pos))
    BY <1>1, <1>2, NextShape DEF Ahead, NoChar
  <2>2. (tokens' = tokens \/ Adds("NEWLINE")) /\ text' = text
    <3>1. CASE LineComment
      BY <1>2, <3>1 DEF LineComment, In, EndComment, Ends, Scan, Emit, Fail
    <3>2. CASE BlockComment
      BY <1>2, <2>1, <3>2
         DEF BlockComment, In, EndComment, Ends, Scan, Emit, Fail, ClosesAt, Char, Ahead
    <3> QED
      BY <1>7, <3>1, <3>2
  <2> QED
    BY <2>2 DEF Types
<1>8. CASE ScanIdentifier \/ ScanHex \/ ScanInteger \/ ScanFloat
  <2>1. OnText(pos) /\ (mode = "integer" => Char \in HexDigit)
    <3>1. mode = "integer" => Char \in Digit
      BY DEF LexerInv, ScanInv
    <3>2. OnText(pos)
      BY <1>8 DEF ScanIdentifier, ScanHex, ScanInteger, ScanFloat, In, LexerInv, ScanInv
    <3> QED
      BY <3>1, <3>2, LexerAssumption
  <2>2. ScanIdentifier => (tokens' = tokens \/ Adds("IDENTIFIER")) /\ text' = text
    BY <2>1 DEF ScanIdentifier, In, Ends, Scan, Emit
  <2>3. ScanHex => (tokens' = tokens \/ Adds("INTEGER_LITERAL")) /\ text' = text
    <3>1. Ahead \notin HexDigit => Ahead \notin Digit
      BY LexerAssumption
    <3> QED
      BY <2>1, <3>1 DEF ScanHex, In, Ends, Scan, Emit, Fail
  <2>4. ScanInteger => (tokens' = tokens \/ Adds("INTEGER_LITERAL")) /\ text' = text
    BY <2>1 DEF ScanInteger, In, Ends, Scan, Emit, Fail
  <2>5. ScanFloat => (tokens' = tokens \/ Adds("FLOAT_LITERAL")) /\ text' = text
    BY <2>1 DEF ScanFloat, In, Ends, Scan, Emit, Fail
  <2> HIDE DEF Adds
  <2> QED
    BY <1>8, <2>2, <2>3, <2>4, <2>5 DEF Adds, Types
<1>9. CASE ScanString
  <2>1. Ahead # NoChar => OnText(Nexts(AfterPeek(text, pos)))
    BY <1>1, <1>9, AfterPeekShape DEF Ahead, ScanString, In, LexerInv, ScanInv
  <2>2. (tokens' = tokens \/ Adds("STRING_LITERAL")) /\ text' = text
    BY <1>9, <2>1 DEF ScanString, In, Ends, Scan, Emit, Fail
  <2> QED
    BY <2>2 DEF Types
<1> QED
  BY <1>3, <1>4, <1>5, <1>6, <1>7, <1>8, <1>9 DEF Next

-----------------------------------------------------------------------------
(* Maximal munch.                                                          *)

\* What a step says of the token it adds holds of it from then on, for neither
\* the text nor a token ever changes.
LEMMA MaximalMunchStep ==
  LexerInv /\ MaximalMunch /\ [Next]_vars => MaximalMunch'
<1> SUFFICES ASSUME LexerInv, MaximalMunch, [Next]_vars
             PROVE  MaximalMunch'
  OBVIOUS
<1>1. text' = text
  BY StepsAdd
<1>2. \A t : Munched(t)' <=> Munched(t)
  BY <1>1 DEF Munched
<1>3. CASE tokens' = tokens
  BY <1>2, <1>3 DEF MaximalMunch
<1>4. ASSUME NEW type \in Types, NEW p, OnText(p), Emit(type, p), Ends(type, p),
             mode = "tokenize" => OnText(pos)
      PROVE  MaximalMunch'
  <2> DEFINE t == Token(type, Frontier, p)
  <2>1. t.type = type /\ t.from = Frontier /\ t.to = p
    BY DEF Token
  <2>2. type = "SYMBOL" => Frontier = pos
    BY <1>4 DEF Ends, Frontier
  <2>3. ASSUME OnText(pos), Nexts(pos) = pos
        PROVE  FALSE
    <3>1. Before(pos, Nexts(pos)) /\ pos \in Cursor
      BY <2>3, BeforeNext DEF LexerInv, OnText
    <3> QED
      BY <2>3, <3>1, BeforeIsOrder
  <2>4. Munched(t)
    <3>1. type = "IDENTIFIER" => Peek(text, p) \notin IdChar
      BY <1>4 DEF Ends, Ahead
    <3>2. type = "INTEGER_LITERAL" => Peek(text, p) \notin Digit
      BY <1>4 DEF Ends, Ahead
    <3>3. type = "FLOAT_LITERAL" => Peek(text, p) \notin Digit \cup {"."}
      BY <1>4 DEF Ends, Ahead
    <3>4. type = "SYMBOL" /\ pos = p => <<Character(text, p), Peek(text, p)>> \notin Multi
      BY <1>4, <2>3 DEF Ends, Ahead, Char
    <3> QED
      BY <2>1, <2>2, <3>1, <3>2, <3>3, <3>4 DEF Munched
  <2> HIDE DEF t
  <2>5. \A k \in DOMAIN tokens' : Munched(tokens'[k])
    <3>1. /\ Len(tokens) \in Nat /\ DOMAIN tokens = 1..Len(tokens)
          /\ DOMAIN tokens' = 1..Len(tokens) + 1
          /\ \A k \in 1..Len(tokens) : tokens'[k] = tokens[k]
          /\ tokens'[Len(tokens) + 1] = t
      BY <1>4, EmitAdds DEF t
    <3>2. \A k \in 1..Len(tokens) + 1 : k \in 1..Len(tokens) \/ k = Len(tokens) + 1
      BY <3>1
    <3> QED
      BY <2>4, <3>1, <3>2 DEF MaximalMunch
  <2> QED
    BY <1>2, <2>5 DEF MaximalMunch
<1> QED
  BY <1>3, <1>4, StepsAdd

\* A token of Lexer never stops in front of a character that belongs to it.
THEOREM TokensAreMaximal == Spec => []MaximalMunch
<1>1. Init => MaximalMunch
  BY DEF Init, MaximalMunch
<1> QED
  BY <1>1, MaximalMunchStep, LexerInvHolds, PTL DEF Spec

-----------------------------------------------------------------------------
(* Comments.                                                               *)

\* The NEWLINE that a comment leaves spans the comment.
LEMMA CommentEnds ==
  ASSUME LexerInv, NEW type \in Types, NEW p, OnText(p), Ends(type, p),
         mode = "tokenize" => OnText(pos)
  PROVE  CommentSpan(Token(type, Frontier, p))
<1> DEFINE t == Token(type, Frontier, p)
<1>1. t.type = type /\ t.from = Frontier /\ t.to = p /\ text \in Texts
  BY DEF Token, LexerInv
<1> HIDE DEF t
<1>2. CASE type # "NEWLINE"
  BY <1>1, <1>2 DEF CommentSpan, OpensComment, t
<1>3. CASE type = "NEWLINE" /\ mode = "tokenize"
  <2>1. Frontier = pos /\ Char = "nl"
    BY <1>3 DEF Ends, Frontier
  <2> QED
    BY <1>1, <2>1 DEF CommentSpan, OpensComment, Char, t
<1>4. CASE type = "NEWLINE" /\ mode = "line_comment"
  <2>1. /\ Frontier = start /\ p = pos /\ Char = "nl"
        /\ Peek(text, start) = "/" /\ pos.line = start.line
    BY <1>4 DEF Ends, Frontier, LexerInv, ScanInv
  <2>2. AtLineEnd(text, pos)
    BY <1>1, <2>1, OnTextShape DEF Char
  <2> QED
    BY <1>1, <2>1, <2>2 DEF CommentSpan, OpensComment, t
<1>5. CASE type = "NEWLINE" /\ mode = "block_comment"
  <2>1. /\ Frontier = start /\ p = Nexts(pos) /\ ClosesAt(pos)
        /\ OnText(start) /\ Peek(text, start) = "*"
        /\ Character(text, start) = "/"
        /\ ~Before(pos, Nexts(Nexts(start)))
        /\ \A r \in Positions : Before(Nexts(start), r) /\ Before(r, pos) => ~ClosesAt(r)
    BY <1>5 DEF Ends, Frontier, LexerInv, ScanInv
  <2>2. More
    <3>1. ~OnText(Nexts(pos)) \/ pos.line < Len(text)
      <4>1. pos \in Cursor /\ Len(text) \in Nat
        BY <1>1, TextShape DEF LexerInv, TypeOK
      <4>2. OnText(Nexts(pos)) => Nexts(pos).line < Len(text)
        BY <4>1 DEF OnText, Eos, Cursor
      <4>3. Nexts(pos).line >= pos.line /\ Nexts(pos).line \in Nat
        BY <4>1 DEF Nexts, NextPos, NextLine, At, Cursor
      <4> QED
        BY <4>1, <4>2, <4>3 DEF Cursor
    <3>2. pos \in Cursor /\ Len(text) \in Nat
      BY <1>1, TextShape DEF LexerInv, TypeOK
    <3> QED
      BY <2>1, <3>1, <3>2 DEF More, Eos, Cursor
  <2>3. OnText(pos) /\ pos \in Positions
    BY <1>1, <2>2, MoreIsOnText, PositionsAreOnText
  <2>4. OnText(Nexts(start)) /\ Nexts(Nexts(start)) \in Cursor
    BY <1>1, <2>1, NextShape DEF NoChar
  <2>5. Before(Nexts(start), pos)
    <3>1. Before(pos, Nexts(Nexts(start))) <=> Before(pos, Nexts(start)) \/ pos = Nexts(start)
      BY <1>1, <2>3, <2>4, BeforeNext
    <3>2. pos \in Cursor /\ Nexts(start) \in Cursor
      BY <2>3, <2>4 DEF OnText
    <3> QED
      BY <2>1, <3>1, <3>2, BeforeIsOrder
  <2>6. \A r \in Positions : Before(r, p) <=> Before(r, pos) \/ r = pos
    BY <1>1, <2>1, <2>3, PositionsAreOnText, BeforeNext
  <2>7. pos \in Body(t)
    BY <1>1, <2>1, <2>3, <2>5, <2>6 DEF Body
  <2>8. {r \in Body(t) : ClosesAt(r)} = {pos}
    <3>1. \A r \in Body(t) : ClosesAt(r) => r = pos
      BY <1>1, <2>1, <2>6 DEF Body
    <3> QED
      BY <2>1, <2>7, <3>1
  <2>9. ~OpensComment(t, "/")
    BY <1>1, <2>1 DEF OpensComment
  <2> QED
    BY <1>1, <2>1, <2>7, <2>8, <2>9 DEF CommentSpan, t
<1> QED
  BY <1>2, <1>3, <1>4, <1>5 DEF Ends

LEMMA CommentSpansStep ==
  LexerInv /\ CommentSpans /\ [Next]_vars => CommentSpans'
<1> SUFFICES ASSUME LexerInv, CommentSpans, [Next]_vars
             PROVE  CommentSpans'
  OBVIOUS
<1>1. text' = text
  BY StepsAdd
<1>2. \A t : CommentSpan(t)' <=> CommentSpan(t)
  <2>1. Positions' = Positions
    BY <1>1 DEF Positions
  <2>2. \A t : Body(t)' = Body(t)
    BY <1>1, <2>1 DEF Body, Nexts
  <2> QED
    BY <1>1, <2>2, Zenon DEF CommentSpan, OpensComment, ClosesAt, Nexts
<1>3. CASE tokens' = tokens
  BY <1>2, <1>3 DEF CommentSpans
<1>4. ASSUME NEW type \in Types, NEW p, OnText(p), Emit(type, p), Ends(type, p),
             mode = "tokenize" => OnText(pos)
      PROVE  CommentSpans'
  <2>1. CommentSpan(Token(type, Frontier, p))
    BY <1>4, CommentEnds
  <2>2. \A k \in DOMAIN tokens' : CommentSpan(tokens'[k])
    <3>1. /\ Len(tokens) \in Nat /\ DOMAIN tokens = 1..Len(tokens)
          /\ DOMAIN tokens' = 1..Len(tokens) + 1
          /\ \A k \in 1..Len(tokens) : tokens'[k] = tokens[k]
          /\ tokens'[Len(tokens) + 1] = Token(type, Frontier, p)
      BY <1>4, EmitAdds
    <3>2. \A k \in 1..Len(tokens) + 1 : k \in 1..Len(tokens) \/ k = Len(tokens) + 1
      BY <3>1
    <3> QED
      BY <2>1, <3>1, <3>2 DEF CommentSpans
  <2> QED
    BY <1>2, <2>2 DEF CommentSpans
<1> QED
  BY <1>3, <1>4, StepsAdd

\* handle_line_comment and handle_block_comment discard what a reader takes
\* for the comment: no line comment runs over its line, and no block comment
\* over a */ or into the characters that open it.
THEOREM CommentsEndWhereTheyClose == Spec => []CommentSpans
<1>1. Init => CommentSpans
  BY DEF Init, CommentSpans
<1> QED
  BY <1>1, CommentSpansStep, LexerInvHolds, PTL DEF Spec

-----------------------------------------------------------------------------
(* What a reader takes for a string.                                       *)

\* The recursion of Quoted has a solution up to every column.
LEMMA QuotedUpTo ==
  ASSUME NEW l, Len(l) \in Nat, NEW n \in 0..Len(l)
  PROVE  \E q : q = [j \in 0..n |-> IF j = 0 THEN "out" ELSE After(q[j - 1], l[j])]
<1> DEFINE Solves(q, k) ==
             q = [j \in 0..k |-> IF j = 0 THEN "out" ELSE After(q[j - 1], l[j])]
           T == {k \in 0..Len(l) : ~\E q : Solves(q, k)}
<1>1. SUFFICES ASSUME T # {}
               PROVE  FALSE
  OBVIOUS
<1>2. T \subseteq Nat
  OBVIOUS
<1>3. PICK m \in T : \A k \in T : m <= k
  <2> HIDE DEF T
  <2> QED
    BY <1>1, <1>2, LeastElement
<1>4. m \in 0..Len(l) /\ ~\E q : Solves(q, m)
  BY <1>3
<1>5. CASE m = 0
  <2> DEFINE q == [j \in 0..0 |-> "out"]
  <2>1. Solves(q, 0)
    OBVIOUS
  <2> QED
    BY <1>4, <1>5, <2>1
<1>6. CASE m # 0
  <2>1. m - 1 \in 0..Len(l) /\ ~(m <= m - 1)
    BY <1>4, <1>6
  <2>2. PICK q : Solves(q, m - 1)
    BY <1>3, <2>1
  <2> DEFINE r == [j \in 0..m |-> IF j = m THEN After(q[m - 1], l[m]) ELSE q[j]]
  <2>3. \A j \in 0..m : r[j] = IF j = 0 THEN "out" ELSE After(r[j - 1], l[j])
    <3>1. \A j \in 0..m - 1 : q[j] = IF j = 0 THEN "out" ELSE After(q[j - 1], l[j])
      BY <2>2
    <3>2. \A j \in 0..m - 1 : r[j] = q[j]
      BY <1>4
    <3>3. r[m] = After(q[m - 1], l[m])
      BY <1>4
    <3> HIDE DEF r
    <3>4. \A j \in 0..m : j = m \/ j \in 0..m - 1
      BY <1>4
    <3>5. \A j \in 0..m : j # 0 => j - 1 \in 0..m - 1
      BY <1>4
    <3> QED
      BY <1>6, <3>1, <3>2, <3>3, <3>4, <3>5
  <2>4. Solves(r, m)
    <3>1. r = [j \in 0..m |-> r[j]]
      OBVIOUS
    <3> HIDE DEF r
    <3> QED
      BY <2>3, <3>1
  <2> QED
    BY <1>4, <2>4
<1> QED
  BY <1>5, <1>6

\* The readings of a line: Quoted follows its recursion, which the definition
\* alone, a choice of some solution, does not say.
LEMMA QuotedShape ==
  ASSUME NEW l, Len(l) \in Nat
  PROVE  /\ Quoted(l)[0] = "out"
         /\ \A j \in 1..Len(l) : Quoted(l)[j] = After(Quoted(l)[j - 1], l[j])
<1> DEFINE Solves(q) ==
             q = [j \in 0..Len(l) |-> IF j = 0 THEN "out" ELSE After(q[j - 1], l[j])]
<1>1. \E q : Solves(q)
  BY QuotedUpTo
<1>2. Quoted(l) = CHOOSE q : Solves(q)
  BY DEF Quoted
<1>3. Solves(Quoted(l))
  <2> HIDE DEF Solves
  <2> QED
    BY <1>1, <1>2
<1>4. \A j \in 0..Len(l) :
        Quoted(l)[j] = IF j = 0 THEN "out" ELSE After(Quoted(l)[j - 1], l[j])
  BY <1>3
<1> QED
  BY <1>4

\* A reader never enters a string on a line without quotes.
LEMMA QuotedWithoutQuotes ==
  ASSUME NEW l \in Seq(STRING), NoQuotes(l)
  PROVE  \A j \in 0..Len(l) : Quoted(l)[j] = "out"
<1>0. Len(l) \in Nat /\ DOMAIN l = 1..Len(l)
  OBVIOUS
<1> DEFINE T == {j \in 0..Len(l) : Quoted(l)[j] # "out"}
<1>1. SUFFICES ASSUME T # {}
               PROVE  FALSE
  OBVIOUS
<1>2. PICK m \in T : \A k \in T : m <= k
  <2>1. T \subseteq Nat
    OBVIOUS
  <2> HIDE DEF T
  <2> QED
    BY <1>1, <2>1, LeastElement
<1>3. m \in 0..Len(l) /\ Quoted(l)[m] # "out"
  BY <1>2
<1>4. m # 0
  BY <1>0, <1>3, QuotedShape
<1>5. m \in 1..Len(l) /\ m - 1 \in 0..Len(l) /\ ~(m <= m - 1)
  BY <1>3, <1>4
<1>6. Quoted(l)[m - 1] = "out"
  BY <1>2, <1>5
<1>7. Quoted(l)[m] = After("out", l[m])
  BY <1>0, <1>5, <1>6, QuotedShape
<1>8. l[m] # "\""
  BY <1>0, <1>5 DEF NoQuotes
<1> QED
  BY <1>3, <1>7, <1>8 DEF After

\* How the reading of a text goes on along the cursor.
LEMMA ReadingShape ==
  ASSUME text \in Texts, NEW p, OnText(p)
  PROVE  /\ ReadAfter(p) = After(ReadBefore(p), Character(text, p))
         /\ Character(text, p) # "nl" =>
              ReadBefore(Nexts(p)) = ReadAfter(p) /\ LineOf(text, Nexts(p)) = LineOf(text, p)
         /\ Character(text, p) = "nl" /\ OnText(Nexts(p)) => ReadBefore(Nexts(p)) = "out"
<1>1. /\ p.line \in Nat /\ p.col \in Nat
      /\ Len(LineOf(text, p)) \in Nat
      /\ p.col + 1 \in 1..Len(LineOf(text, p))
      /\ Character(text, p) = LineOf(text, p)[p.col + 1]
  BY OnTextShape
<1>2. ReadAfter(p) = After(ReadBefore(p), Character(text, p))
  <2>1. (p.col + 1) - 1 = p.col
    BY <1>1
  <2> QED
    BY <1>1, <2>1, QuotedShape DEF ReadAfter, ReadBefore
<1>3. CASE Character(text, p) # "nl"
  <2>1. Nexts(p).line = p.line /\ Nexts(p).col = p.col + 1
    BY <1>3, NextShape DEF At
  <2>2. LineOf(text, Nexts(p)) = LineOf(text, p)
    BY <2>1 DEF LineOf
  <2> QED
    BY <1>2, <1>3, <2>1, <2>2 DEF ReadAfter, ReadBefore
<1>4. CASE Character(text, p) = "nl"
  <2>1. Nexts(p).col = 0
    BY <1>4, NextShape DEF At
  <2>2. OnText(Nexts(p)) => ReadBefore(Nexts(p)) = "out"
    <3>1. OnText(Nexts(p)) => Len(LineOf(text, Nexts(p))) \in Nat
      BY OnTextShape
    <3> QED
      BY <2>1, <3>1, QuotedShape DEF ReadBefore
  <2> QED
    BY <1>2, <1>4, <2>2
<1> QED
  BY <1>3, <1>4

\* On a line without quotes a reader is always outside of a string.
LEMMA ReadingWithoutQuotes ==
  ASSUME text \in Texts, NEW p, OnText(p),
         NoQuotes(LineOf(text, p))
  PROVE  ReadBefore(p) = "out" /\ ReadAfter(p) = "out"
<1>1. /\ Len(LineOf(text, p)) \in Nat /\ p.col \in Nat
      /\ p.col + 1 \in 1..Len(LineOf(text, p))
      /\ LineOf(text, p) \in Seq(STRING)
  <2>1. p.line + 1 \in 1..Len(text) /\ LineOf(text, p) = text[p.line + 1]
    BY OnTextShape
  <2> QED
    BY <2>1, OnTextShape, TextShape
<1>2. p.col \in 0..Len(LineOf(text, p)) /\ p.col + 1 \in 0..Len(LineOf(text, p))
  BY <1>1
<1> QED
  BY <1>1, <1>2, QuotedWithoutQuotes DEF ReadBefore, ReadAfter

\* What StringsClosed says of the line of a place on the text.
LEMMA ClosedLine ==
  ASSUME text \in Texts, StringsClosed, NEW p, OnText(p)
  PROVE  /\ Character(text, p) = "nl" => ReadAfter(p) = "out"
         /\ Character(text, p) \in {"'", "/"} =>
              \A q : OnText(q) /\ q.line = p.line => ReadBefore(q) = "out" /\ ReadAfter(q) = "out"
<1>1. /\ p.line + 1 \in 1..Len(text) /\ p.col \in Nat
      /\ LineOf(text, p) = text[p.line + 1]
      /\ p.col + 1 \in 1..Len(LineOf(text, p))
      /\ Len(LineOf(text, p)) \in Nat
      /\ Character(text, p) = LineOf(text, p)[p.col + 1]
      /\ Character(text, p) = "nl" <=> AtLineEnd(text, p)
  BY OnTextShape
<1>2. DOMAIN text = 1..Len(text) /\ DOMAIN text[p.line + 1] = 1..Len(text[p.line + 1])
  BY <1>1, TextShape
<1>3. /\ Quoted(LineOf(text, p))[Len(LineOf(text, p))] = "out"
      /\ \A j, k \in 1..Len(LineOf(text, p)) :
           LineOf(text, p)[j] = "\"" => LineOf(text, p)[k] \notin {"'", "/"}
  BY <1>1, <1>2 DEF StringsClosed
<1>4. Character(text, p) = "nl" => ReadAfter(p) = "out"
  <2>1. AtLineEnd(text, p) => p.col + 1 = Len(LineOf(text, p))
    BY <1>1 DEF AtLineEnd
  <2> QED
    BY <1>1, <1>3, <2>1 DEF ReadAfter
<1>5. ASSUME Character(text, p) \in {"'", "/"}, NEW q, OnText(q), q.line = p.line
      PROVE  ReadBefore(q) = "out" /\ ReadAfter(q) = "out"
  <2>1. LineOf(text, q) = LineOf(text, p)
    BY <1>5 DEF LineOf
  <2>2. NoQuotes(LineOf(text, q))
    BY <1>1, <1>2, <1>3, <1>5, <2>1 DEF NoQuotes
  <2> QED
    BY <1>5, <2>2, ReadingWithoutQuotes
<1> QED
  BY <1>4, <1>5

\* StringsClosed never becomes true: tokens are only added.
LEMMA ClosedBefore ==
  ASSUME LexerInv, [Next]_vars, StringsClosed'
  PROVE  StringsClosed
<1>1. text' = text /\ \A k \in DOMAIN tokens : k \in DOMAIN tokens' /\ tokens'[k] = tokens[k]
  <2>1. CASE tokens' = tokens
    BY <2>1, StepsAdd
  <2>2. CASE \E type \in Types : \E p : OnText(p) /\ Emit(type, p)
    <3>1. PICK type \in Types : \E p : OnText(p) /\ Emit(type, p)
      BY <2>2
    <3>2. PICK p : OnText(p) /\ Emit(type, p)
      BY <3>1
    <3>3. /\ Len(tokens) \in Nat /\ DOMAIN tokens = 1..Len(tokens)
          /\ DOMAIN tokens' = 1..Len(tokens) + 1
          /\ \A k \in 1..Len(tokens) : tokens'[k] = tokens[k]
          /\ text' = text
      BY <3>2, EmitAdds
    <3> QED
      BY <3>3
  <2> QED
    BY <2>1, <2>2, StepsAdd
<1>2. \A i \in DOMAIN text :
        /\ Quoted(text[i])[Len(text[i])] = "out"
        /\ \A j, k \in DOMAIN text[i] : text[i][j] = "\"" => text[i][k] \notin {"'", "/"}
  BY <1>1 DEF StringsClosed
<1>3. ASSUME NEW k \in DOMAIN tokens
      PROVE  ClosedBehind(tokens[k])
  <2>1. \A t : ClosedBehind(t)' <=> ClosedBehind(t)
    BY <1>1 DEF ClosedBehind
  <2>2. \A j \in DOMAIN tokens' : ClosedBehind(tokens[j])'
    BY DEF StringsClosed
  <2> QED
    BY <1>1, <2>1, <2>2
<1> QED
  BY <1>2, <1>3 DEF StringsClosed

-----------------------------------------------------------------------------
(* The scanning functions and the reader agree.                            *)

\* A string literal is never scanned at the end of its line.
LEMMA StringInside ==
  ASSUME LexerInv, StringsClosed, ReaderAgrees, mode = "string"
  PROVE  /\ OnText(pos) /\ OnText(start) /\ Char # "nl"
         /\ AfterPeek(text, pos) = pos
         /\ OnText(Nexts(pos)) /\ Nexts(pos) = At(pos.line, pos.col + 1)
         /\ LineOf(text, pos) = LineOf(text, start)
         /\ LineOf(text, Nexts(pos)) = LineOf(text, start)
         /\ Ahead = Character(text, Nexts(pos)) /\ Ahead # NoChar
         /\ ReadBefore(Nexts(pos)) = "in"
         /\ ReadAfter(Nexts(pos)) = After("in", Ahead)
<1>1. text \in Texts /\ OnText(pos) /\ OnText(start)
  BY DEF LexerInv, ScanInv
<1>2. pos.line = start.line /\ ReadAfter(pos) = "in"
  BY DEF ReaderAgrees
<1>3. Char # "nl"
  BY <1>1, <1>2, ClosedLine DEF Char
<1>4. OnText(Nexts(pos)) /\ Nexts(pos) = At(pos.line, pos.col + 1) /\ AfterPeek(text, pos) = pos
  BY <1>1, <1>3, NextShape, AfterPeekShape DEF Char
<1>5. Ahead = Character(text, Nexts(pos))
  BY <1>1, <1>4, NextShape DEF Ahead
<1>6. Ahead # NoChar
  BY <1>1, <1>4, <1>5, OnTextShape
<1>7. LineOf(text, pos) = LineOf(text, start)
  BY <1>2 DEF LineOf
<1>8. LineOf(text, Nexts(pos)) = LineOf(text, pos) /\ ReadBefore(Nexts(pos)) = "in"
  BY <1>1, <1>2, <1>3, ReadingShape DEF Char
<1>9. ReadAfter(Nexts(pos)) = After("in", Ahead)
  BY <1>1, <1>4, <1>5, <1>8, ReadingShape
<1> QED
  BY <1>1, <1>3, <1>4, <1>5, <1>6, <1>7, <1>8, <1>9

\* What is read of the characters behind pos, in a string.
LEMMA StringGrows ==
  ASSUME LexerInv, StringsClosed, ReaderAgrees, mode = "string"
  PROVE  /\ Nexts(pos).col = pos.col + 1 /\ pos.col \in Nat /\ start.col \in Nat
         /\ start.col <= pos.col
         /\ \A j \in start.col + 1 .. Nexts(pos).col :
              Quoted(LineOf(text, start))[j] # "out"
<1>1. text \in Texts /\ OnText(pos) /\ OnText(start) /\ Nexts(pos).col = pos.col + 1
  BY StringInside DEF LexerInv, At
<1>2. pos.col \in Nat /\ start.col \in Nat
  BY <1>1, OnTextShape
<1> QED
  BY <1>1, <1>2 DEF ReaderAgrees

\* After a token a reader is outside of a string, and a string literal is what
\* a reader takes for one.
LEMMA EmitReads ==
  ASSUME LexerInv, StringsClosed, ReaderAgrees,
         NEW type \in Types, NEW p, OnText(p), Ends(type, p),
         mode = "tokenize" => OnText(pos),
         ClosedBehind(Token(type, Frontier, p))
  PROVE  /\ Character(text, p) # "nl" => ReadAfter(p) = "out"
         /\ type = "STRING_LITERAL" => StringSpan(Token(type, Frontier, p))
<1>1. text \in Texts
  BY DEF LexerInv
<1>2. \A c : c # "\"" => After("out", c) = "out"
  BY DEF After
<1>3. CASE type = "NEWLINE"
  <2>1. CASE p = pos /\ Char = "nl"
    BY <1>3, <2>1 DEF Char
  <2>2. CASE p = Nexts(pos) /\ ClosesAt(pos)
    <3>1. Peek(text, pos) = "/"
      BY <2>2 DEF ClosesAt
    <3>2. p = NextPos(text, pos) /\ ~Eos(text, p)
      BY <2>2 DEF Nexts, OnText
    <3>3. Character(text, p) = "/"
      BY <3>1, <3>2 DEF Peek
    <3> QED
      BY <1>1, <1>3, <3>3, ClosedLine
  <2> QED
    BY <1>3, <2>1, <2>2 DEF Ends
<1>4. CASE type \in {"IDENTIFIER", "INTEGER_LITERAL", "FLOAT_LITERAL"}
  <2>1. /\ p = pos /\ mode \in Words /\ OnText(pos)
        /\ Char \in IdChar \cup HexDigit \cup Digit \cup {"."}
    BY <1>4 DEF Ends, Words, LexerInv, ScanInv
  <2>2. Char # "\""
    BY <2>1, WordCharacters
  <2>3. ReadBefore(pos) = "out"
    BY <2>1 DEF ReaderAgrees, OnText, More, Words
  <2>4. ReadAfter(pos) = "out"
    BY <1>1, <1>2, <2>1, <2>2, <2>3, ReadingShape DEF Char
  <2> QED
    BY <1>4, <2>1, <2>4
<1>5. CASE type = "CHAR_LITERAL"
  <2>1. Frontier = pos /\ OnText(pos) /\ Character(text, pos) = "'"
    BY <1>5 DEF Ends, Frontier, Char
  <2>2. CASE p.line = pos.line
    BY <1>1, <1>5, <2>1, <2>2, ClosedLine
  <2>3. CASE p.line # pos.line
    <3>1. NoQuotes(LineOf(text, p))
      BY <1>5, <2>1, <2>3 DEF ClosedBehind, Token
    <3> QED
      BY <1>1, <1>5, <3>1, ReadingWithoutQuotes
  <2> QED
    BY <2>2, <2>3
<1>6. CASE type = "SYMBOL"
  <2>1. mode = "tokenize" /\ OnText(pos) /\ Char \notin Space \cup {"\""}
    BY <1>6 DEF Ends
  <2>2. Char # "nl" /\ Char # "\""
    BY <2>1 DEF Space
  <2>3. ReadBefore(pos) = "out"
    BY <2>1 DEF ReaderAgrees, OnText, More
  <2>4. ReadAfter(pos) = "out"
    BY <1>1, <1>2, <2>1, <2>2, <2>3, ReadingShape DEF Char
  <2>5. CASE p = pos
    BY <1>6, <2>4, <2>5
  <2>6. CASE p = Nexts(pos) /\ <<Char, Ahead>> \in Multi
    <3>1. Ahead # "\"" /\ Ahead = Character(text, Nexts(pos))
      BY <1>1, <2>1, <2>6, LexerAssumption, NextShape DEF Ahead
    <3>2. ReadBefore(p) = "out"
      BY <1>1, <2>1, <2>2, <2>4, <2>6, ReadingShape DEF Char
    <3>3. ReadAfter(p) = "out"
      BY <1>1, <1>2, <2>6, <3>1, <3>2, ReadingShape
    <3> QED
      BY <1>6, <3>3
  <2> QED
    BY <1>6, <2>5, <2>6 DEF Ends
<1>7. CASE type = "STRING_LITERAL"
  <2>1. mode = "string" /\ Ahead = "\"" /\ p = Nexts(AfterPeek(text, pos)) /\ Frontier = start
    BY <1>7 DEF Ends, Frontier
  <2>2. p = Nexts(pos) /\ p = At(pos.line, pos.col + 1)
    BY <2>1, StringInside
  <2>3. ReadAfter(p) = "out"
    BY <2>1, <2>2, StringInside DEF After
  <2>4. LineOf(text, p) = LineOf(text, start) /\ p.line = start.line
    <3>1. pos.line = start.line
      BY <2>1 DEF ReaderAgrees
    <3>2. LineOf(text, p) = LineOf(text, start)
      BY <2>1, <2>2, StringInside
    <3> QED
      BY <2>2, <3>1, <3>2 DEF At
  <2>5. \A j \in start.col + 1 .. p.col : Quoted(LineOf(text, start))[j] # "out"
    BY <2>1, <2>2, StringGrows
  <2>6. ReadBefore(start) = "out"
    BY <2>1 DEF ReaderAgrees
  <2>7. StringSpan([type |-> type, from |-> start, to |-> p])
    BY <2>3, <2>4, <2>5, <2>6 DEF StringSpan, ReadBefore, ReadAfter
  <2> QED
    BY <2>1, <2>3, <2>7 DEF Token
<1> QED
  BY <1>3, <1>4, <1>5, <1>6, <1>7 DEF Types

-----------------------------------------------------------------------------
(* Steps that add no token.                                                *)

\* Where a step that adds no token takes the cursor, in each function.
Moves ==
  \/ pos' = pos /\ mode' = mode /\ start' = start
  \/ /\ mode = "tokenize" /\ mode' = "tokenize" /\ OnText(pos)
     /\ Char = "sp" /\ pos' = Nexts(pos)
  \/ /\ mode = "tokenize" /\ OnText(pos) /\ start' = pos
     /\ \/ mode' \in {"identifier", "integer"} /\ pos' = pos
        \/ mode' = "string" /\ pos' = pos /\ Char = "\""
        \/ mode' = "hex" /\ pos' = Nexts(Nexts(pos)) /\ Char = "0" /\ Ahead = "x"
        \/ mode' \in {"line_comment", "block_comment"} /\ pos' = Nexts(Nexts(pos)) /\ IsComment
  \/ /\ mode \in Words /\ mode' \in Words /\ start' = start /\ OnText(pos)
     /\ pos' = Nexts(pos) /\ Char # "nl" /\ Char # "\""
  \/ /\ mode = "line_comment" /\ mode' = mode /\ start' = start /\ OnText(pos)
     /\ pos' = Nexts(pos) /\ Char # "nl"
  \/ mode = "block_comment" /\ mode' = mode /\ start' = start
  \/ /\ mode = "string" /\ mode' = mode /\ start' = start
     /\ \/ Ahead = NoChar
        \/ Ahead = "\\" /\ pos' = Nexts(Nexts(AfterPeek(text, pos))) /\ ~Eos(text, pos')
        \/ Ahead \notin {"\"", "\\"} /\ pos' = Nexts(AfterPeek(text, pos))

LEMMA EmitChanges ==
  ASSUME LexerInv, NEW type, NEW p, Emit(type, p)
  PROVE  tokens' # tokens
<1>1. tokens' = Append(tokens, Token(type, Frontier, p))
  BY DEF Emit, Frontier
<1>2. tokens \in Seq([type : Types, from : Cursor, to : Cursor])
  BY DEF LexerInv, TypeOK
<1> HIDE DEF Token, Frontier
<1>3. Len(tokens') = Len(tokens) + 1 /\ Len(tokens) \in Nat
  BY <1>1, <1>2
<1> QED
  BY <1>3

LEMMA StepsMove ==
  ASSUME LexerInv, [Next]_vars, tokens' = tokens
  PROVE  Moves
<1>1. \A type, p : ~Emit(type, p)
  BY EmitChanges
<1>2. \A s : Fail(s) => Moves
  BY DEF Fail, Moves
<1>3. /\ "nl" \notin IdChar /\ "nl" \notin HexDigit /\ "nl" \notin Digit
      /\ "\"" \notin IdChar /\ "\"" \notin HexDigit /\ "\"" \notin Digit
  BY WordCharacters
<1>4. CASE Skip
  BY <1>4, MoreIsOnText DEF Skip, Scan, In, Moves
<1>5. CASE Comment
  <2>1. /\ mode = "tokenize" /\ OnText(pos) /\ start' = pos
        /\ mode' \in {"line_comment", "block_comment"} /\ pos' = Nexts(Nexts(pos)) /\ IsComment
    BY <1>5, MoreIsOnText DEF Comment, Call, In
  <2> QED
    BY <2>1 DEF Moves
<1>6. CASE Identifier \/ String \/ (Numeric /\ ~(Char = "0" /\ Ahead = "x"))
  <2>1. /\ mode = "tokenize" /\ OnText(pos) /\ start' = pos /\ pos' = pos
        /\ \/ mode' \in {"identifier", "integer"}
           \/ mode' = "string" /\ Char = "\""
    BY <1>6, MoreIsOnText DEF Identifier, String, Numeric, Call, In
  <2> QED
    BY <2>1 DEF Moves
<1>7. CASE Numeric /\ Char = "0" /\ Ahead = "x"
  <2>1. /\ mode = "tokenize" /\ OnText(pos) /\ start' = pos
        /\ mode' = "hex" /\ pos' = Nexts(Nexts(pos))
    BY <1>7, MoreIsOnText DEF Numeric, Call, In
  <2> QED
    BY <1>7, <2>1 DEF Moves
<1>8. CASE Newline \/ CharLiteral \/ Symbol \/ Done
  BY <1>1, <1>2, <1>8 DEF Newline, CharLiteral, Symbol, Done
<1>9. CASE LineComment
  <2>1. More => OnText(pos)
    BY MoreIsOnText
  <2> QED
    BY <1>1, <1>2, <1>9, <2>1 DEF LineComment, EndComment, Scan, In, Moves
<1>10. CASE BlockComment
  BY <1>1, <1>2, <1>10 DEF BlockComment, EndComment, Scan, In, Moves
<1>11. CASE ScanIdentifier \/ ScanHex \/ ScanInteger \/ ScanFloat
  <2>1. OnText(pos)
    BY <1>11 DEF ScanIdentifier, ScanHex, ScanInteger, ScanFloat, In, LexerInv, ScanInv
  <2>2. ScanIdentifier => Char \in IdChar
    BY DEF ScanIdentifier, In, LexerInv, ScanInv
  <2>3. ScanInteger => Char \in Digit
    BY DEF ScanInteger, In, LexerInv, ScanInv
  <2>4. ScanFloat => Char \in Digit \cup {"."}
    BY DEF ScanFloat, In, LexerInv, ScanInv
  <2>5. ScanIdentifier => Moves
    BY <1>1, <1>3, <2>1, <2>2 DEF ScanIdentifier, Scan, In, Words, Moves
  <2>6. ScanHex => Moves
    BY <1>1, <1>2, <1>3, <2>1 DEF ScanHex, Scan, In, Words, Moves
  <2>7. ScanInteger => Moves
    BY <1>1, <1>2, <1>3, <2>1, <2>3 DEF ScanInteger, Scan, In, Words, Moves
  <2>8. ScanFloat => Moves
    BY <1>1, <1>2, <1>3, <2>1, <2>4 DEF ScanFloat, Scan, In, Words, Moves
  <2> QED
    BY <1>11, <2>5, <2>6, <2>7, <2>8
<1>12. CASE ScanString
  <2> DEFINE p == AfterPeek(text, pos)
             q == Nexts(p)
             r == Nexts(q)
  <2>1. \/ \E s : Fail(s)
        \/ \E type : Emit(type, q)
        \/ Ahead = NoChar /\ Scan(p)
        \/ Ahead = "\\" /\ Scan(r) /\ ~Eos(text, r)
        \/ Ahead \notin {"\"", "\\"} /\ Scan(q)
    BY <1>12 DEF ScanString
  <2>2. mode = "string"
    BY <1>12 DEF ScanString, In
  <2>3. \/ \E s : Fail(s)
        \/ /\ mode' = mode /\ start' = start
           /\ \/ Ahead = NoChar
              \/ Ahead = "\\" /\ pos' = r /\ ~Eos(text, pos')
              \/ Ahead \notin {"\"", "\\"} /\ pos' = q
    <3> HIDE DEF p, q, r
    <3> QED
      BY <1>1, <2>1 DEF Scan
  <2> QED
    BY <1>2, <2>2, <2>3 DEF Moves
<1>13. CASE UNCHANGED vars
  BY <1>13 DEF vars, Moves
<1> QED
  BY <1>4, <1>5, <1>6, <1>7, <1>8, <1>9, <1>10, <1>11, <1>12, <1>13 DEF Next

\* A word, a line comment or a blank does not take a reader into a string.
LEMMA MovesRead ==
  ASSUME LexerInv, StringsClosed, ReaderAgrees, text' = text, Moves,
         mode' \notin {"block_comment", "string"}, More'
  PROVE  ReadBefore(pos') = "out"
<1>1. text \in Texts
  BY DEF LexerInv
<1>2. \A c : c # "\"" => After("out", c) = "out"
  BY DEF After
<1>3. CASE pos' = pos /\ mode \notin {"block_comment", "string"}
  BY <1>3 DEF ReaderAgrees, More
<1>4. ASSUME OnText(pos), mode \notin {"block_comment", "string"},
             Char # "\"", Char # "nl"
      PROVE  ReadBefore(Nexts(pos)) = "out"
  <2>1. ReadBefore(pos) = "out"
    BY <1>4 DEF ReaderAgrees, OnText, More
  <2>2. ReadAfter(pos) = "out"
    BY <1>1, <1>2, <1>4, <2>1, ReadingShape DEF Char
  <2> QED
    BY <1>1, <1>4, <2>2, ReadingShape DEF Char
<1>5. CASE IsComment /\ pos' = Nexts(Nexts(pos)) /\ OnText(pos)
  <2> DEFINE p == Nexts(Nexts(pos))
  <2>1. Char = "/" /\ Ahead \in {"/", "*"}
    BY <1>5 DEF IsComment
  <2>2. /\ OnText(Nexts(pos)) /\ Nexts(pos).line = pos.line
        /\ Character(text, Nexts(pos)) \in {"/", "*"}
    BY <1>1, <1>5, <2>1, NextShape DEF Char, Ahead, At
  <2>3. OnText(p) /\ p.line = pos.line
    BY <1>1, <2>2, NextShape DEF At
  <2> HIDE DEF p
  <2> QED
    BY <1>1, <1>5, <2>1, <2>3, ClosedLine DEF Char, p
<1>6. CASE mode = "tokenize" /\ OnText(pos) /\ Char = "0" /\ Ahead = "x" /\ pos' = Nexts(Nexts(pos))
  <2>1. OnText(Nexts(pos)) /\ Character(text, Nexts(pos)) = "x"
    BY <1>1, <1>6, NextShape DEF Char, Ahead
  <2>2. ReadBefore(Nexts(pos)) = "out"
    BY <1>4, <1>6
  <2>3. ReadAfter(Nexts(pos)) = "out"
    BY <1>1, <1>2, <2>1, <2>2, ReadingShape
  <2> QED
    BY <1>1, <1>6, <2>1, <2>3, ReadingShape
<1>7. CASE mode = "line_comment" /\ OnText(pos) /\ pos' = Nexts(pos) /\ Char # "nl"
  <2>1. OnText(start) /\ Character(text, start) = "/" /\ pos.line = start.line
    BY <1>7 DEF LexerInv, ScanInv
  <2>2. OnText(pos') /\ pos'.line = start.line
    BY <1>1, <1>7, <2>1, NextShape DEF Char, At
  <2> QED
    BY <1>1, <2>1, <2>2, ClosedLine
<1> QED
  BY <1>3, <1>4, <1>5, <1>6, <1>7 DEF Moves, Words

\* A string literal goes on as a reader reads it.
LEMMA StringMoves ==
  ASSUME LexerInv, StringsClosed, ReaderAgrees, text' = text, Moves, mode' = "string"
  PROVE  /\ pos'.line = start'.line /\ start'.col <= pos'.col
         /\ ReadBefore(start') = "out"
         /\ ReadAfter(pos') = "in"
         /\ \A j \in start'.col + 1 .. pos'.col + 1 :
              Quoted(LineOf(text, start'))[j] # "out"
<1>1. text \in Texts
  BY DEF LexerInv
<1>2. CASE pos' = pos /\ mode' = mode /\ start' = start
  BY <1>2 DEF ReaderAgrees
<1>3. CASE mode = "tokenize" /\ OnText(pos) /\ start' = pos /\ pos' = pos /\ Char = "\""
  <2>1. ReadBefore(pos) = "out"
    BY <1>3 DEF ReaderAgrees, OnText, More
  <2>2. ReadAfter(pos) = "in"
    BY <1>1, <1>3, <2>1, ReadingShape DEF Char, After
  <2>3. pos.col \in Nat
    BY <1>1, <1>3, OnTextShape
  <2>4. \A j \in pos.col + 1 .. pos.col + 1 : Quoted(LineOf(text, pos))[j] # "out"
    <3>1. \A j \in pos.col + 1 .. pos.col + 1 : j = pos.col + 1
      BY <2>3
    <3> QED
      BY <2>2, <3>1 DEF ReadAfter
  <2>5. pos.col <= pos.col
    BY <2>3
  <2> QED
    BY <1>3, <2>1, <2>2, <2>4, <2>5
<1>4. CASE mode = "string" /\ mode' = mode /\ start' = start /\ Moves /\ pos' # pos
  <2> DEFINE q == Nexts(pos)
  <2>1. /\ OnText(q) /\ Ahead = Character(text, q) /\ Ahead # NoChar
        /\ ReadAfter(q) = After("in", Ahead)
        /\ LineOf(text, q) = LineOf(text, start) /\ q = At(pos.line, pos.col + 1)
        /\ AfterPeek(text, pos) = pos
    BY <1>4, StringInside
  <2>2. /\ q.col = pos.col + 1 /\ pos.col \in Nat /\ start.col \in Nat /\ start.col <= pos.col
        /\ \A j \in start.col + 1 .. q.col : Quoted(LineOf(text, start))[j] # "out"
    BY <1>4, StringGrows
  <2>3. q.line = start.line /\ ReadBefore(start) = "out"
    BY <1>4, <2>1 DEF ReaderAgrees, At
  <2>4. \/ Ahead = "\\" /\ pos' = Nexts(q) /\ ~Eos(text, pos')
        \/ Ahead \notin {"\"", "\\"} /\ pos' = q
    BY <1>4, <2>1 DEF Moves, Words
  <2>5. CASE Ahead \notin {"\"", "\\"} /\ pos' = q
    <3>1. ReadAfter(q) = "in"
      BY <2>1, <2>5 DEF After
    <3>2. \A j \in start.col + 1 .. q.col + 1 : j \in start.col + 1 .. q.col \/ j = q.col + 1
      BY <2>2
    <3>3. Quoted(LineOf(text, start))[q.col + 1] = "in"
      BY <2>1, <3>1 DEF ReadAfter
    <3>4. \A j \in start.col + 1 .. q.col + 1 : Quoted(LineOf(text, start))[j] # "out"
      BY <2>2, <3>2, <3>3
    <3>5. start.col <= q.col
      BY <2>2
    <3> HIDE DEF q
    <3> QED
      BY <1>4, <2>3, <2>5, <3>1, <3>4, <3>5
  <2>6. CASE Ahead = "\\" /\ pos' = Nexts(q) /\ ~Eos(text, pos')
    <3> DEFINE r == Nexts(q)
    <3>1. ReadAfter(q) = "esc" /\ Character(text, q) # "nl"
      BY <2>1, <2>6 DEF After
    <3>2. /\ OnText(r) /\ r = At(q.line, q.col + 1)
          /\ ReadBefore(r) = "esc" /\ LineOf(text, r) = LineOf(text, q)
      BY <1>1, <2>1, <3>1, NextShape, ReadingShape
    <3>3. ReadAfter(r) = "in"
      BY <1>1, <3>2, ReadingShape DEF After
    <3>4. r.line = start.line /\ r.col = q.col + 1 /\ r.col + 1 = q.col + 2
      BY <2>2, <2>3, <3>2 DEF At
    <3>5. \A j \in start.col + 1 .. r.col + 1 :
            j \in start.col + 1 .. q.col \/ j = q.col + 1 \/ j = r.col + 1
      BY <2>2, <3>4
    <3>6. /\ Quoted(LineOf(text, start))[q.col + 1] = "esc"
          /\ Quoted(LineOf(text, start))[r.col + 1] = "in"
      BY <2>1, <3>1, <3>2, <3>3 DEF ReadAfter
    <3>7. \A j \in start.col + 1 .. r.col + 1 : Quoted(LineOf(text, start))[j] # "out"
      BY <2>2, <3>5, <3>6
    <3>8. start.col <= r.col
      BY <2>2, <3>4
    <3>9. pos' = r /\ start' = start
      BY <1>4, <2>6
    <3> HIDE DEF r
    <3> QED
      BY <2>3, <3>3, <3>4, <3>7, <3>8, <3>9
  <2> QED
    BY <2>4, <2>5, <2>6
<1>5. mode = "string" \/ mode = "tokenize"
  BY DEF Moves, Words
<1> QED
  BY <1>2, <1>3, <1>4, <1>5 DEF Moves, Words

\* The token that a step adds belongs to the text that StringsClosed is about.
LEMMA AddedClosed ==
  ASSUME LexerInv, StringsClosed', NEW type \in Types, NEW p, OnText(p), Emit(type, p)
  PROVE  ClosedBehind(Token(type, Frontier, p))
<1> DEFINE t == Token(type, Frontier, p)
<1>1. /\ Len(tokens) \in Nat /\ DOMAIN tokens' = 1..Len(tokens) + 1
      /\ tokens'[Len(tokens) + 1] = t
      /\ text' = text
  BY EmitAdds
<1> HIDE DEF t
<1>2. \A k \in DOMAIN tokens' : ClosedBehind(tokens[k])'
  BY DEF StringsClosed
<1>3. \A s : ClosedBehind(s)' <=> ClosedBehind(s)
  BY <1>1 DEF ClosedBehind
<1>4. Len(tokens) + 1 \in DOMAIN tokens'
  BY <1>1
<1>5. ClosedBehind(t)
  BY <1>1, <1>2, <1>3, <1>4
<1> QED
  BY <1>5 DEF t

LEMMA ReaderStep == LexerInv /\ ReaderInv /\ [Next]_vars => ReaderInv'
<1> SUFFICES ASSUME LexerInv, ReaderInv, [Next]_vars, StringsClosed'
             PROVE  ReaderAgrees'
  BY DEF ReaderInv
<1>1. StringsClosed /\ ReaderAgrees /\ text \in Texts /\ text' = text
  BY ClosedBefore, StepsAdd DEF ReaderInv, LexerInv
<1>2. CASE tokens' = tokens
  <2>1. Moves
    BY <1>2, StepsMove
  <2>2. mode' \notin {"block_comment", "string"} /\ More' => ReadBefore(pos') = "out"
    BY <1>1, <2>1, MovesRead
  <2>3. mode' = "string" =>
          /\ pos'.line = start'.line /\ start'.col <= pos'.col
          /\ ReadBefore(start') = "out"
          /\ ReadAfter(pos') = "in"
          /\ \A j \in start'.col + 1 .. pos'.col + 1 :
               Quoted(LineOf(text, start'))[j] # "out"
    BY <1>1, <2>1, StringMoves
  <2> QED
    BY <1>1, <2>2, <2>3 DEF ReaderAgrees, ReadBefore, ReadAfter
<1>3. ASSUME NEW type \in Types, NEW p, OnText(p), Emit(type, p), Ends(type, p),
             mode = "tokenize" => OnText(pos)
      PROVE  ReaderAgrees'
  <2>1. ClosedBehind(Token(type, Frontier, p))
    BY <1>3, AddedClosed
  <2>2. Character(text, p) # "nl" => ReadAfter(p) = "out"
    BY <1>1, <1>3, <2>1, EmitReads
  <2>3. mode' = "tokenize" /\ pos' = Nexts(p)
    BY <1>3, EmitAdds
  <2>4. Eos(text, Nexts(p)) \/ OnText(Nexts(p))
    BY <1>1, <1>3, NextShape
  <2>5. OnText(Nexts(p)) => ReadBefore(Nexts(p)) = "out"
    BY <1>1, <1>3, <2>2, ReadingShape
  <2>6. More' => OnText(pos')
    BY <1>1, <2>3, <2>4 DEF More
  <2>7. More' => ReadBefore(pos)' = "out"
    BY <1>1, <2>3, <2>5, <2>6 DEF ReadBefore
  <2> QED
    BY <2>3, <2>7 DEF ReaderAgrees
<1> QED
  BY <1>2, <1>3, StepsAdd

LEMMA ReaderInit == Init => ReaderInv
<1> SUFFICES ASSUME Init
             PROVE  ReaderAgrees
  BY DEF ReaderInv
<1>1. mode = "tokenize" /\ pos = At(0, 0) /\ text \in Texts
  BY DEF Init
<1>2. More => ReadBefore(pos) = "out"
  <2>1. More => OnText(pos)
    BY LexerInvInit, MoreIsOnText
  <2>2. OnText(pos) => Len(LineOf(text, pos)) \in Nat
    BY <1>1, OnTextShape
  <2> QED
    BY <1>1, <2>1, <2>2, QuotedShape DEF ReadBefore, At
<1> QED
  BY <1>1, <1>2 DEF ReaderAgrees

\* The lexer is inside of a string literal just when a reader is inside of a
\* string, at every step.
THEOREM ReaderInvHolds == Spec => [](LexerInv /\ ReaderInv)
<1>1. Spec => []ReaderInv
  BY ReaderInit, ReaderStep, LexerInvHolds, PTL DEF Spec
<1> QED
  BY <1>1, LexerInvHolds, PTL

LEMMA StringSpansStep ==
  LexerInv /\ ReaderInv /\ StringSpans /\ [Next]_vars => StringSpans'
<1> SUFFICES ASSUME LexerInv, ReaderInv, StringSpans, [Next]_vars, StringsClosed'
             PROVE  (\A k \in DOMAIN tokens :
                       tokens[k].type = "STRING_LITERAL" => StringSpan(tokens[k]))'
  BY DEF StringSpans
<1>1. StringsClosed /\ ReaderAgrees /\ text' = text
  BY ClosedBefore, StepsAdd DEF ReaderInv
<1>2. \A t : StringSpan(t)' <=> StringSpan(t)
  BY <1>1 DEF StringSpan
<1>3. \A k \in DOMAIN tokens : tokens[k].type = "STRING_LITERAL" => StringSpan(tokens[k])
  BY <1>1 DEF StringSpans
<1>4. CASE tokens' = tokens
  BY <1>2, <1>3, <1>4
<1>5. ASSUME NEW type \in Types, NEW p, OnText(p), Emit(type, p), Ends(type, p),
             mode = "tokenize" => OnText(pos)
      PROVE  (\A k \in DOMAIN tokens :
                tokens[k].type = "STRING_LITERAL" => StringSpan(tokens[k]))'
  <2> DEFINE t == Token(type, Frontier, p)
  <2>1. ClosedBehind(t)
    BY <1>5, AddedClosed
  <2>2. t.type = "STRING_LITERAL" => StringSpan(t)
    <3>1. t.type = type
      BY DEF Token
    <3> QED
      BY <1>1, <1>5, <2>1, <3>1, EmitReads
  <2>3. /\ Len(tokens) \in Nat /\ DOMAIN tokens = 1..Len(tokens)
        /\ DOMAIN tokens' = 1..Len(tokens) + 1
        /\ \A k \in 1..Len(tokens) : tokens'[k] = tokens[k]
        /\ tokens'[Len(tokens) + 1] = t
    BY <1>5, EmitAdds
  <2> HIDE DEF t
  <2>4. \A k \in 1..Len(tokens) + 1 : k \in 1..Len(tokens) \/ k = Len(tokens) + 1
    BY <2>3
  <2>5. \A k \in DOMAIN tokens' :
          tokens'[k].type = "STRING_LITERAL" => StringSpan(tokens'[k])
    BY <1>3, <2>2, <2>3, <2>4
  <2> QED
    BY <1>2, <2>5
<1> QED
  BY <1>4, <1>5, StepsAdd

\* A string literal is exactly the text between a quote and the first one after
\* it that no backslash escapes, whatever peek() does to the cursor.
THEOREM StringsEndWhereTheyClose == Spec => []StringSpans
<1>1. Init => StringSpans
  BY DEF Init, StringSpans
<1> QED
  BY <1>1, StringSpansStep, ReaderInvHolds, PTL DEF Spec

-----------------------------------------------------------------------------
(* Tokens follow one another.                                              *)

\* Without a token, the frontier moves over a blank, or not at all.
LEMMA FrontierMoves ==
  ASSUME LexerInv, Moves
  PROVE  \/ Frontier' = Frontier
         \/ OnText(Frontier) /\ Character(text, Frontier) = "sp" /\ Frontier' = Nexts(Frontier)
<1>1. CASE pos' = pos /\ mode' = mode /\ start' = start
  BY <1>1 DEF Frontier
<1>2. CASE mode = "tokenize" /\ mode' = "tokenize" /\ OnText(pos) /\ Char = "sp" /\ pos' = Nexts(pos)
  BY <1>2 DEF Frontier, Char
<1>3. CASE mode = "tokenize" /\ start' = pos /\ mode' # "tokenize"
  BY <1>3 DEF Frontier
<1>4. CASE mode # "tokenize" /\ start' = start /\ mode' # "tokenize"
  BY <1>4 DEF Frontier
<1> QED
  BY <1>1, <1>2, <1>3, <1>4 DEF Moves, Words

\* A token begins at the frontier and does not end before it; it takes the end
\* of a line only as a NEWLINE or inside of a char literal.
LEMMA EmitPlace ==
  ASSUME LexerInv, StringsClosed, ReaderAgrees,
         NEW type \in Types, NEW p, OnText(p), Ends(type, p),
         mode = "tokenize" => OnText(pos)
  PROVE  /\ OnText(Frontier) /\ ~Before(p, Frontier)
         /\ Character(text, p) = "nl" => type \in {"NEWLINE", "CHAR_LITERAL"}
<1>1. text \in Texts
  BY DEF LexerInv
<1>2. OnText(Frontier)
  BY DEF Frontier, LexerInv, ScanInv
<1>3. p \in Cursor /\ p.line \in Nat /\ p.col \in Nat /\ start \in Cursor
  BY DEF OnText, Cursor, LexerInv, TypeOK
<1>4. ~Before(p, p)
  BY <1>3, BeforeIsOrder
<1>5. CASE p = pos /\ mode = "tokenize" /\ Char \notin Space
  BY <1>2, <1>4, <1>5 DEF Frontier, Char, Space
<1>6. CASE mode \in {"tokenize", "line_comment"} /\ p = pos /\ type = "NEWLINE"
  <2>1. mode = "line_comment" => ~Before(pos, start)
    <3>1. mode = "line_comment" => pos.line = start.line /\ start.col + 2 <= pos.col
      BY DEF LexerInv, ScanInv
    <3> QED
      BY <1>3, <1>6, <3>1 DEF Before, Cursor
  <2> QED
    BY <1>2, <1>4, <1>6, <2>1 DEF Frontier
<1>7. CASE mode = "block_comment"
  <2>1. p = Nexts(pos) /\ type = "NEWLINE"
    BY <1>7 DEF Ends
  <2>2. /\ OnText(start) /\ Peek(text, start) = "*"
        /\ ~Before(pos, Nexts(Nexts(start)))
    BY <1>7 DEF LexerInv, ScanInv
  <2>3. OnText(Nexts(start)) /\ Before(start, Nexts(start))
    <3>1. OnText(Nexts(start))
      BY <1>1, <2>2, NextShape DEF NoChar
    <3> QED
      BY <1>1, <2>2, <3>1, BeforeNext
  <2>4. OnText(pos)
    <3>1. pos \in Cursor /\ (Eos(text, pos) \/ OnText(pos))
      BY DEF LexerInv, TypeOK, OnText
    <3>2. Len(text) \in Nat
      BY <1>1, TextShape
    <3>3. Nexts(pos).line >= pos.line
      BY <3>1 DEF Nexts, NextPos, NextLine, At, Cursor
    <3>4. ~Eos(text, p)
      BY DEF OnText
    <3> QED
      BY <1>3, <2>1, <3>1, <3>2, <3>3, <3>4 DEF Eos, Cursor
  <2>5. ~Before(pos, start)
    <3>1. Before(pos, Nexts(Nexts(start))) <=> Before(pos, Nexts(start)) \/ pos = Nexts(start)
      BY <1>1, <2>3, <2>4, BeforeNext
    <3>2. Before(pos, Nexts(start)) <=> Before(pos, start) \/ pos = start
      BY <1>1, <2>2, <2>4, BeforeNext
    <3> QED
      BY <2>2, <3>1, <3>2
  <2>6. Before(pos, p) /\ pos \in Cursor
    BY <1>1, <2>1, <2>4, BeforeNext DEF OnText
  <2>7. ~Before(p, start)
    BY <1>3, <2>5, <2>6, BeforeIsOrder
  <2> QED
    BY <1>2, <1>7, <2>1, <2>7 DEF Frontier
<1>8. CASE mode \in Words
  <2>1. p = pos /\ pos.line = start.line /\ start.col <= pos.col
    BY <1>8 DEF Ends, Words, LexerInv, ScanInv
  <2>2. ~Before(p, start)
    BY <1>3, <2>1 DEF Before, Cursor
  <2>3. Character(text, p) # "nl"
    <3>1. Char \in IdChar \cup HexDigit \cup Digit \cup {"."}
      BY <1>8 DEF Ends, Words, LexerInv, ScanInv
    <3> QED
      BY <2>1, <3>1, WordCharacters DEF Char
  <2> QED
    BY <1>2, <1>8, <2>2, <2>3 DEF Frontier, Words
<1>9. CASE type = "CHAR_LITERAL"
  <2>1. mode = "tokenize" /\ Before(pos, p) /\ pos \in Cursor
    BY <1>9 DEF Ends, LexerInv, TypeOK
  <2>2. ~Before(p, pos)
    BY <1>3, <2>1, BeforeIsOrder
  <2> QED
    BY <1>2, <1>9, <2>1, <2>2 DEF Frontier
<1>10. CASE mode = "tokenize" /\ p = Nexts(pos) /\ <<Char, Ahead>> \in Multi
  <2>1. Ahead # "nl" /\ Ahead = Character(text, Nexts(pos))
    BY <1>1, <1>10, LexerAssumption, NextShape DEF Ahead
  <2>2. Before(pos, p) /\ pos \in Cursor
    BY <1>1, <1>10, BeforeNext DEF OnText
  <2>3. ~Before(p, pos)
    BY <1>3, <2>2, BeforeIsOrder
  <2> QED
    BY <1>2, <1>10, <2>1, <2>3 DEF Frontier
<1>11. CASE mode = "string"
  <2>1. p = Nexts(pos) /\ p = At(pos.line, pos.col + 1) /\ Ahead = "\"" /\ Ahead = Character(text, p)
    BY <1>11, StringInside DEF Ends, Words
  <2>2. pos.line = start.line /\ p.line = pos.line
    <3>1. pos.line = start.line
      BY <1>11 DEF ReaderAgrees
    <3>2. p = [line |-> pos.line, col |-> pos.col + 1]
      BY <2>1, Zenon DEF At
    <3>3. p.line = pos.line
      BY <3>2
    <3> QED
      BY <3>1, <3>3
  <2>3. start.col <= pos.col /\ p.col = pos.col + 1 /\ pos.col \in Nat /\ start.col \in Nat
    BY <1>11, <2>1, StringGrows
  <2>4. ~Before(p, start)
    BY <1>3, <2>2, <2>3 DEF Before, Cursor
  <2> QED
    BY <1>2, <1>11, <2>1, <2>4 DEF Frontier
<1> QED
  BY <1>5, <1>6, <1>7, <1>8, <1>9, <1>10, <1>11 DEF Ends, Words

\* The invariant behind LinesSeparated.
LinesInv == StringsClosed => LastLine

LEMMA LinesStep ==
  LexerInv /\ ReaderInv /\ LinesInv /\ LinesSeparated /\ [Next]_vars
    => LinesInv' /\ LinesSeparated'
<1> DEFINE Parted(s, t) == s.to.line = t.from.line \/ s.type \in {"NEWLINE", "CHAR_LITERAL"}
           Parts == \A k \in DOMAIN tokens : k > 1 => Parted(tokens[k - 1], tokens[k])
<1> SUFFICES ASSUME LexerInv, ReaderInv, LinesInv, LinesSeparated, [Next]_vars, StringsClosed'
             PROVE  LastLine' /\ Parts'
  BY DEF LinesInv, LinesSeparated
<1>1. /\ StringsClosed /\ ReaderAgrees /\ LastLine /\ Parts
      /\ text' = text /\ text \in Texts
  BY ClosedBefore, StepsAdd DEF ReaderInv, LinesInv, LinesSeparated, LexerInv
<1>2. CASE tokens' = tokens
  <2>1. Frontier'.line = Frontier.line
    <3>1. OnText(Frontier) /\ Character(text, Frontier) = "sp" => Nexts(Frontier).line = Frontier.line
      BY <1>1, NextShape DEF At
    <3> QED
      BY <1>2, <3>1, StepsMove, FrontierMoves
  <2>2. LastLine'
    BY <1>1, <1>2, <2>1 DEF LastLine
  <2> QED
    BY <1>1, <1>2, <2>2
<1>3. ASSUME NEW type \in Types, NEW p, OnText(p), Emit(type, p), Ends(type, p),
             mode = "tokenize" => OnText(pos)
      PROVE  LastLine' /\ Parts'
  <2> DEFINE t == Token(type, Frontier, p)
  <2>1. /\ Len(tokens) \in Nat /\ DOMAIN tokens = 1..Len(tokens)
        /\ DOMAIN tokens' = 1..Len(tokens) + 1
        /\ Len(tokens') = Len(tokens) + 1
        /\ \A k \in 1..Len(tokens) : tokens'[k] = tokens[k]
        /\ tokens'[Len(tokens) + 1] = t
        /\ mode' = "tokenize" /\ pos' = Nexts(p)
    BY <1>3, EmitAdds
  <2>2. t.type = type /\ t.from = Frontier /\ t.to = p
    BY DEF Token
  <2> HIDE DEF t
  <2>3. Character(text, p) = "nl" => type \in {"NEWLINE", "CHAR_LITERAL"}
    BY <1>1, <1>3, EmitPlace
  <2>4. Character(text, p) # "nl" => Nexts(p).line = p.line
    BY <1>1, <1>3, NextShape DEF At
  <2>5. Frontier' = Nexts(p)
    BY <2>1 DEF Frontier
  <2>6. LastLine'
    BY <2>1, <2>2, <2>3, <2>4, <2>5 DEF LastLine
  <2>7. Len(tokens) > 0 => Parted(tokens[Len(tokens)], t)
    <3>1. Len(tokens) > 0 => tokens # <<>>
      OBVIOUS
    <3> QED
      BY <1>1, <2>2, <3>1 DEF LastLine
  <2>8. ASSUME NEW k \in DOMAIN tokens', k > 1
        PROVE  Parted(tokens'[k - 1], tokens'[k])
    <3>1. CASE k = Len(tokens) + 1
      <4>1. k - 1 = Len(tokens) /\ Len(tokens) > 0 /\ Len(tokens) \in 1..Len(tokens)
        BY <2>1, <2>8, <3>1
      <4> HIDE DEF Parted
      <4> QED
        BY <2>1, <2>7, <3>1, <4>1
    <3>2. CASE k # Len(tokens) + 1
      <4>1. k \in 1..Len(tokens) /\ k - 1 \in 1..Len(tokens)
        BY <2>1, <2>8, <3>2
      <4> HIDE DEF Parted
      <4> QED
        BY <1>1, <2>1, <2>8, <4>1
    <3> QED
      BY <3>1, <3>2
  <2> QED
    BY <2>6, <2>8
<1> QED
  BY <1>2, <1>3, StepsAdd

\* Between tokens of different lines there is a NEWLINE or the char literal
\* that ran over the line break: newline(), handle_line_comment() and
\* handle_block_comment() between them lose none.
THEOREM LineBreaksAreKept == Spec => []LinesSeparated
<1>1. Init => LinesInv /\ LinesSeparated
  BY DEF Init, LinesInv, LinesSeparated, LastLine
<1>2. Spec => [](LinesInv /\ LinesSeparated)
  BY <1>1, LinesStep, ReaderInvHolds, PTL DEF Spec
<1> QED
  BY <1>2, PTL

-----------------------------------------------------------------------------
(* Tokens tile the text.                                                   *)

TilesInv == StringsClosed => Tiled

\* A blank that is stepped over is no loss.
LEMMA BlankTiles ==
  ASSUME LexerInv, Tiled, text' = text, tokens' = tokens,
         \/ Frontier' = Frontier
         \/ OnText(Frontier) /\ Character(text, Frontier) = "sp" /\ Frontier' = Nexts(Frontier)
  PROVE  Tiled'
<1>1. text \in Texts /\ Positions' = Positions
  BY DEF LexerInv, Positions
<1>2. CASE Frontier' = Frontier
  BY <1>1, <1>2 DEF Tiled, Within
<1>3. CASE OnText(Frontier) /\ Character(text, Frontier) = "sp" /\ Frontier' = Nexts(Frontier)
  <2>1. \A p \in Positions : Before(p, Nexts(Frontier)) <=> Before(p, Frontier) \/ p = Frontier
    BY <1>1, <1>3, PositionsAreOnText, BeforeNext
  <2>2. \A p \in Positions : Before(p, Nexts(Frontier)) /\ Character(text, p) # "sp" =>
          \E k \in DOMAIN tokens : Within(p, tokens[k])
    BY <1>3, <2>1 DEF Tiled
  <2>3. \A k \in DOMAIN tokens : Before(tokens[k].to, Nexts(Frontier))
    <3>1. SUFFICES ASSUME NEW k \in DOMAIN tokens
                   PROVE  Before(tokens[k].to, Nexts(Frontier))
      OBVIOUS
    <3>2. tokens[k].to \in Cursor /\ Before(tokens[k].to, Frontier)
      <4>1. tokens \in Seq([type : Types, from : Cursor, to : Cursor])
        BY DEF LexerInv, TypeOK
      <4>2. k \in 1..Len(tokens)
        BY <3>1, <4>1
      <4>3. tokens[k] \in [type : Types, from : Cursor, to : Cursor]
        BY <4>1, <4>2, ElementOfSeq
      <4> QED
        BY <3>1, <4>3 DEF Tiled
    <3>3. Frontier \in Cursor /\ Nexts(Frontier) \in Cursor /\ Before(Frontier, Nexts(Frontier))
      <4>1. Before(Frontier, Nexts(Frontier))
        BY <1>1, <1>3, BeforeNext
      <4> QED
        BY <1>1, <1>3, <4>1, NextShape DEF OnText
    <3> QED
      BY <3>2, <3>3, BeforeIsOrder
  <2>4. \A p \in Positions : \A j, k \in DOMAIN tokens :
          Within(p, tokens[j]) /\ Within(p, tokens[k]) => j = k
    BY DEF Tiled
  <2> QED
    BY <1>1, <1>3, <2>2, <2>3, <2>4 DEF Tiled, Within
<1> QED
  BY <1>2, <1>3

\* A token from the frontier to p takes what lies between them.
LEMMA TokenTiles ==
  ASSUME LexerInv, StringsClosed, ReaderAgrees, Tiled,
         NEW type \in Types, NEW p, OnText(p), Emit(type, p), Ends(type, p),
         mode = "tokenize" => OnText(pos)
  PROVE  Tiled'
<1> DEFINE t == Token(type, Frontier, p)
<1>1. /\ Len(tokens) \in Nat /\ DOMAIN tokens = 1..Len(tokens)
      /\ DOMAIN tokens' = 1..Len(tokens) + 1
      /\ \A k \in 1..Len(tokens) : tokens'[k] = tokens[k]
      /\ tokens'[Len(tokens) + 1] = t
      /\ tokens \in Seq([type : Types, from : Cursor, to : Cursor])
      /\ text' = text /\ mode' = "tokenize" /\ pos' = Nexts(p)
  BY EmitAdds
<1>2. t.from = Frontier /\ t.to = p
  BY DEF Token
<1> HIDE DEF t
<1>3. Frontier' = Nexts(p) /\ text \in Texts /\ Positions' = Positions
  BY <1>1 DEF Frontier, LexerInv, Positions
<1>4. OnText(Frontier) /\ ~Before(p, Frontier)
  BY EmitPlace
<1>5. Frontier \in Cursor /\ p \in Cursor /\ Nexts(p) \in Cursor /\ Before(p, Nexts(p))
  <2>1. Before(p, Nexts(p))
    BY <1>3, BeforeNext
  <2> QED
    BY <1>3, <1>4, <2>1, NextShape DEF OnText
<1>6. \A k \in 1..Len(tokens) : tokens[k].to \in Cursor /\ Before(tokens[k].to, Frontier)
  <2>1. \A k \in 1..Len(tokens) : tokens[k] \in [type : Types, from : Cursor, to : Cursor]
    BY <1>1, ElementOfSeq
  <2> QED
    BY <1>1, <2>1 DEF Tiled
<1>7. \A q \in Positions : q \in Cursor
  BY <1>3, PositionsAreOnText DEF OnText
<1>8. \A q \in Positions : Within(q, t) <=> ~Before(q, Frontier) /\ ~Before(p, q)
  BY <1>2 DEF Within
<1>9. \A q \in Positions, k \in 1..Len(tokens) : Within(q, tokens[k]) => Before(q, Frontier)
  <2>1. SUFFICES ASSUME NEW q \in Positions, NEW k \in 1..Len(tokens), ~Before(tokens[k].to, q)
                 PROVE  Before(q, Frontier)
    BY DEF Within
  <2>2. tokens[k].to \in Cursor /\ Before(tokens[k].to, Frontier) /\ q \in Cursor
    BY <1>6, <1>7
  <2>3. q = tokens[k].to \/ Before(q, tokens[k].to)
    BY <2>1, <2>2, BeforeIsOrder
  <2> QED
    BY <1>5, <2>2, <2>3, BeforeIsOrder
<1>10. \A k \in 1..Len(tokens) + 1 : k \in 1..Len(tokens) \/ k = Len(tokens) + 1
  BY <1>1
<1>11. \A k \in DOMAIN tokens' : Before(tokens'[k].to, Nexts(p))
  <2>1. \A k \in 1..Len(tokens) : Before(tokens[k].to, Nexts(p))
    <3>1. Frontier = p \/ Before(Frontier, p)
      BY <1>4, <1>5, BeforeIsOrder
    <3>2. Before(Frontier, Nexts(p))
      BY <1>5, <3>1, BeforeIsOrder
    <3> QED
      BY <1>5, <1>6, <3>2, BeforeIsOrder
  <2> QED
    BY <1>1, <1>2, <1>5, <1>10, <2>1
<1>12. \A q \in Positions : Before(q, Nexts(p)) /\ Character(text, q) # "sp" =>
         \E k \in DOMAIN tokens' : Within(q, tokens'[k])
  <2>1. SUFFICES ASSUME NEW q \in Positions, Before(q, Nexts(p)), Character(text, q) # "sp"
                 PROVE  \E k \in DOMAIN tokens' : Within(q, tokens'[k])
    OBVIOUS
  <2>2. CASE Before(q, Frontier)
    <3>1. PICK k \in DOMAIN tokens : Within(q, tokens[k])
      BY <2>1, <2>2 DEF Tiled
    <3> QED
      BY <1>1, <3>1
  <2>3. CASE ~Before(q, Frontier)
    <3>1. Before(q, p) \/ q = p
      BY <1>3, <2>1, PositionsAreOnText, BeforeNext
    <3>2. ~Before(p, q)
      BY <1>5, <1>7, <3>1, BeforeIsOrder
    <3> QED
      BY <1>1, <1>8, <2>3, <3>2
  <2> QED
    BY <2>2, <2>3
<1>13. \A q \in Positions : \A j, k \in DOMAIN tokens' :
         Within(q, tokens'[j]) /\ Within(q, tokens'[k]) => j = k
  <2>1. SUFFICES ASSUME NEW q \in Positions, NEW j \in DOMAIN tokens', NEW k \in DOMAIN tokens',
                        Within(q, tokens'[j]), Within(q, tokens'[k])
                 PROVE  j = k
    OBVIOUS
  <2>2. CASE j \in 1..Len(tokens) /\ k \in 1..Len(tokens)
    BY <1>1, <2>1, <2>2 DEF Tiled
  <2>3. CASE j = Len(tokens) + 1 /\ k \in 1..Len(tokens)
    BY <1>1, <1>8, <1>9, <2>1, <2>3
  <2>4. CASE j \in 1..Len(tokens) /\ k = Len(tokens) + 1
    BY <1>1, <1>8, <1>9, <2>1, <2>4
  <2> QED
    BY <1>1, <1>10, <2>2, <2>3, <2>4
<1> QED
  BY <1>1, <1>3, <1>11, <1>12, <1>13 DEF Tiled, Within

LEMMA TilesStep ==
  LexerInv /\ ReaderInv /\ TilesInv /\ [Next]_vars => TilesInv'
<1> SUFFICES ASSUME LexerInv, ReaderInv, TilesInv, [Next]_vars, StringsClosed'
             PROVE  Tiled'
  BY DEF TilesInv
<1>1. StringsClosed /\ ReaderAgrees /\ Tiled /\ text' = text
  BY ClosedBefore, StepsAdd DEF ReaderInv, TilesInv
<1>2. CASE tokens' = tokens
  BY <1>1, <1>2, StepsMove, FrontierMoves, BlankTiles
<1>3. ASSUME NEW type \in Types, NEW p, OnText(p), Emit(type, p), Ends(type, p),
             mode = "tokenize" => OnText(pos)
      PROVE  Tiled'
  BY <1>1, <1>3, TokenTiles
<1> QED
  BY <1>2, <1>3, StepsAdd

LEMMA TilesInit == Init => TilesInv
<1> SUFFICES ASSUME Init
             PROVE  Tiled
  BY DEF TilesInv
<1>1. text \in Texts /\ Frontier = At(0, 0) /\ tokens = <<>>
  BY DEF Init, Frontier
<1>2. \A p \in Positions : ~Before(p, At(0, 0))
  <2>1. \A p \in Positions : p.line \in Nat /\ p.col \in Nat
    BY <1>1, PositionsAreOnText, OnTextShape
  <2> QED
    BY <2>1 DEF Before, At
<1> QED
  BY <1>1, <1>2 DEF Tiled

\* When lexing is done the frontier is behind the whole text.
LEMMA DoneTiles == LexerInv /\ TilesInv => TokensTile
<1> SUFFICES ASSUME LexerInv, TilesInv, status = "done", StringsClosed,
                    NEW p \in Positions, Character(text, p) # "sp"
             PROVE  Cardinality({k \in DOMAIN tokens : Within(p, tokens[k])}) = 1
  BY DEF TokensTile
<1>1. Tiled /\ mode = "tokenize" /\ ~More /\ Frontier = pos /\ text \in Texts
  BY DEF LexerInv, TilesInv, Frontier
<1>2. Before(p, pos)
  <2>1. /\ p.line \in Nat /\ p.line + 1 \in 1..Len(text) /\ Len(text) \in Nat
    BY <1>1, PositionsAreOnText, OnTextShape, TextShape
  <2>2. pos.line >= Len(text) /\ pos.line \in Nat
    BY <1>1 DEF More, Eos, LexerInv, TypeOK, Cursor
  <2> QED
    BY <2>1, <2>2 DEF Before
<1>3. PICK k \in DOMAIN tokens : Within(p, tokens[k])
  BY <1>1, <1>2 DEF Tiled
<1>4. {j \in DOMAIN tokens : Within(p, tokens[j])} = {k}
  BY <1>1, <1>3 DEF Tiled
<1>5. Cardinality({k}) = 1
  BY FS_Singleton
<1> QED
  BY <1>4, <1>5

\* When tokenize() succeeds, no character but the blanks is dropped and none is
\* lexed twice.
THEOREM EveryCharacterIsLexedOnce == Spec => []TokensTile
<1>1. Spec => []TilesInv
  BY TilesInit, TilesStep, ReaderInvHolds, PTL DEF Spec
<1> QED
  BY <1>1, DoneTiles, ReaderInvHolds, PTL
=============================================================================
